---- MODULE Spec2Model ----
(***************************************************************************)
(* Model of the backtest engine of ChartBeacon (src/api/backtest.py).      *)
(*                                                                         *)
(* Two specifications share the variables and the execution core:          *)
(*   Spec     a call of BacktestEngine._execute_backtest on an arbitrary   *)
(*            signal-annotated series (the loop over the bars, then the    *)
(*            final liquidation and the result);                           *)
(*   SpecRun  a call of BacktestEngine.run_signal_backtest: validation of  *)
(*            the fetched candles, merge, signal generation, then the same *)
(*            execution core.                                              *)
(*                                                                         *)
(* Numbers.  The source computes in double precision.  Prices and the      *)
(* initial capital are integers here; transaction_cost_rate is             *)
(* n / RateDen, max_position_ratio is m / RatioDen and stop_loss_ratio is  *)
(* s / StopDen.  Every amount of money (capital, transaction_cost,         *)
(* portfolio value) is an exact multiple of 1 / RateDen and is held as     *)
(* that multiple, so capital = 5 * RateDen stands for 5.0.  Comparisons    *)
(* and floor divisions are the exact rational ones.  On the values drawn   *)
(* below (Prices, InitialCapitals, BacktestConfig) the double arithmetic   *)
(* of the source takes the same branches and yields the same ledger        *)
(* (quantities, prices, reasons); its amounts differ from the exact ones   *)
(* by rounding only (below 1e-11).                                         *)
(*                                                                         *)
(* Left out: the database queries (the fetched frames are inputs), the     *)
(* log messages, the indicator frame and the statistics of the result      *)
(* that no property below reads.                                           *)
(***************************************************************************)
EXTENDS Integers, Sequences, FiniteSets, TLC

\* ---------------------------------------------------------------- bounds
\* Longest signal-annotated series given to _execute_backtest under Spec.
MaxBars == 3
\* Longest candle series fetched under SpecRun.
MaxRows == 2

\* ------------------------------------------------------------ number grid
\* Denominator of transaction_cost_rate (default 0.0015 = 3 / 2000).
RateDen == 2000
\* Denominator of max_position_ratio (default 0.95 = 19 / 20).
RatioDen == 20
\* Denominator of stop_loss_ratio (default 0.05 = 1 / 20).
StopDen == 20

\* None: no level, no error, no result yet.
Null == "None"
\* A missing number of a DataFrame cell (NaN); it compares False with every
\* number, which each use below spells out.
NaN == -1000000

\* Close prices of the bars.
Prices == {80, 95, 100}
\* The values of the signal column.
Signals == {"BUY", "SELL", "HOLD"}
\* initial_capital (> 0).
InitialCapitals == {90, 10000}

\* BacktestConfig values: numerators over RateDen, RatioDen and StopDen.
\* (transaction_cost_rate, max_position_ratio) pairs: (0, 1.0), the defaults
\* (0.0015, 0.95), (0.0015, 1.0) and a cost rate above 100 %: (2.0, 0.25).
CostAndRatio == {<<0, 20>>, <<3, 19>>, <<3, 20>>, <<4000, 5>>}
\* stop_loss_ratio: 0.05 (the default) and 0.2.
StopLossRatios == {1, 4}

BacktestConfig ==
    { [transaction_cost_rate |-> cr[1], max_position_ratio |-> cr[2],
       stop_loss_ratio |-> s] : cr \in CostAndRatio, s \in StopLossRatios }

\* The rows of a signal-annotated series: the index (ts) and the columns the
\* core reads.
BarRows == [close : Prices, signal : Signals]

\* A series of n rows indexed by the ascending timestamps 1..n.
WithIndex(rows) == [k \in 1..Len(rows) |-> [ts |-> k] @@ rows[k]]

\* ------------------------------------------------- inputs of a whole run
\* A bad cell of a price column: missing, zero, negative.
BadCells == {NaN, 0, -1}
PriceCols == <<"open", "high", "low", "close">>
\* Close prices of the fetched candles.
RunPrices == {80, 100}
CleanCandle(c) == [open |-> c, high |-> c, low |-> c, close |-> c]
\* A fetched candle: four positive prices, or one bad cell among them.
CandleRows ==
    { CleanCandle(c) : c \in RunPrices }
    \cup { [CleanCandle(100) EXCEPT ![PriceCols[k]] = b] : k \in 1..4, b \in BadCells }
\* summary.level of a timestamp; Null when the summary has no row for it.
Levels == {"STRONG_BUY", "BUY", "NEUTRAL", "SELL", "STRONG_SELL"}
RunLevels == {"BUY", "STRONG_SELL", Null}
\* The strategy names run_signal_backtest dispatches on.
Catalogue ==
    {"technical_summary", "rsi", "macd", "trend_filtered", "market_adaptive",
     "buy_hold_first", "low_frequency", "adx_filtered", "momentum_reversal",
     "position_sizing"}
\* The strategy names of a run: one of the catalogue, one outside it.
RunStrategies == {"technical_summary", "no_such_strategy"}

\* ------------------------------------- inputs of the signal generators
\* Longest merged frame given to a signal generator under SpecSig.
MaxSigRows == 3
\* The columns a merged row carries besides the candle: none (no indicator
\* and no summary row in the date range), the summary level, or the
\* indicators with chosen values of rsi14, of macd and macd_signal, or of
\* rsi14, stoch_k and cci14.
NoCols == { CleanCandle(100) }
LevelCols == { [level |-> l] : l \in Levels \cup {Null} }
IndicatorCols(rsi, macd, sig, stoch, cci) ==
    [rsi14 |-> rsi, macd |-> macd, macd_signal |-> sig, stoch_k |-> stoch,
     cci14 |-> cci]
RsiCols ==
    { IndicatorCols(r, NaN, NaN, NaN, NaN) : r \in {NaN, 25, 30, 35, 70, 72} }
MacdCols ==
    { IndicatorCols(NaN, d, 0, NaN, NaN) : d \in {NaN, -1, 0, 1} }
    \cup { IndicatorCols(NaN, 1, NaN, NaN, NaN) }
MomentumCols ==
    { IndicatorCols(t[1], NaN, NaN, t[2], t[3]) :
        t \in { <<20, 10, -200>>, <<NaN, 10, -200>>, <<20, NaN, -200>>,
                <<20, 10, NaN>>, <<25, 10, -200>>, <<20, 20, -200>>,
                <<20, 10, -150>>, <<80, 90, 200>>, <<75, 90, 200>>,
                <<80, 80, 200>>, <<80, 90, 150>>, <<50, 50, 0>> } }
\* The merged frames of 1..rows rows with columns drawn from cols: a clean
\* candle of close 100 per row, indexed by the timestamps 1..n.
FramesOver(cols, rows) ==
    UNION { { [k \in 1..n |-> ([ts |-> k] @@ CleanCandle(100)) @@ r[k]] :
                r \in [1..n -> cols] } : n \in 1..rows }
\* The close of row k of a long frame of n rows: a level price, then a step
\* up ("rise") or down ("fall") over the last 11 rows, or a step up over the
\* last 31 ("climb").
ShapeClose(shape, n, k) ==
    IF shape = "rise" THEN (IF k <= n - 11 THEN 100 ELSE 125)
    ELSE IF shape = "climb" THEN (IF k <= n - 31 THEN 100 ELSE 125)
    ELSE (IF k <= n - 11 THEN 125 ELSE 100)
\* A frame of n rows of that shape: the first row carries the level first,
\* the others the level rest.
LongFrame(n, shape, first, rest) ==
    [k \in 1..n |-> ([ts |-> k] @@ CleanCandle(ShapeClose(shape, n, k)))
                      @@ [level |-> IF k = 1 THEN first ELSE rest]]
\* Frames long enough for the 14-, 20- and 50-row windows to fill.
LongFrames ==
    { LongFrame(51, shape, first, rest) :
        shape \in {"rise", "fall"}, first \in {"BUY", "STRONG_SELL"},
        rest \in {"STRONG_BUY", "SELL", "STRONG_SELL"} }
\* The frame with the level of its last row replaced.
WithLastLevel(frame, level) ==
    [frame EXCEPT ![Len(frame)] = [@ EXCEPT !.level = level]]
\* Frames long enough for the 200-row window to fill.
LongestFrames ==
    { LongFrame(201, "rise", "BUY", "SELL"),
      LongFrame(201, "rise", "BUY", "STRONG_BUY"),
      LongFrame(201, "fall", "BUY", "STRONG_SELL"),
      LongFrame(201, "climb", "BUY", "SELL"),
      WithLastLevel(LongFrame(201, "fall", "BUY", "STRONG_SELL"), "BUY") }
\* The strategies that compute the 200-row average.
Ma200Strategies == {"trend_filtered", "market_adaptive", "buy_hold_first"}
\* The strategies that read the summary level.
LevelStrategies ==
    {"technical_summary", "trend_filtered", "market_adaptive", "buy_hold_first",
     "low_frequency", "adx_filtered", "position_sizing"}
\* The (strategy, merged frame) pairs given to the dispatch under SpecSig,
\* the short frames of up to rows rows; those of momentum_reversal, which
\* reads one row at a time, of up to two.
SigInputs(rows) ==
    (LevelStrategies \X FramesOver(LevelCols, rows))
    \cup (LevelStrategies \X LongFrames)
    \cup (Ma200Strategies \X LongestFrames)
    \cup ({"rsi", "momentum_reversal"} \X FramesOver(RsiCols, rows))
    \cup ({"macd"} \X FramesOver(MacdCols, rows))
    \cup ({"momentum_reversal"} \X FramesOver(MomentumCols, 2))
    \cup (Catalogue \X FramesOver(NoCols, rows))

\* All sequences over S of length 0..n.
SeqUpTo(S, n) == UNION { [1..k -> S] : k \in 0..n }

VARIABLES
    pc,                      \* where the run is: "validate", "merge", "signals",
                             \*   "exec", "done", "error"
    candles,                 \* candles_df as fetched (SpecRun)
    summary,                 \* summary_df.level by row of candles (SpecRun)
    strategy,                \* the strategy name (SpecRun)
    merged,                  \* merged_df (SpecRun)
    error,                   \* the ValueError raised, Null when none
    config,                  \* self.config
    initial_capital,         \* initial_capital (unscaled)
    df,                      \* the signal-annotated series given to the core
    i,                       \* number of bars the loop has processed
    capital,                 \* cash, in units of 1 / RateDen
    position,                \* shares held
    entry_price,             \* price of the open position, 0 when flat
    trades,                  \* the ledger
    portfolio_values,        \* the equity curve, in units of 1 / RateDen
    total_transaction_cost,  \* in units of 1 / RateDen
    result,                  \* the BacktestResult, Null until returned
    results                  \* the results of the engine's earlier runs

vars == <<pc, candles, summary, strategy, merged, error, config,
          initial_capital, df, i, capital, position, entry_price, trades,
          portfolio_values, total_transaction_cost, result, results>>

\* ------------------------------------------------------------------ Trade
Trade(ts, action, price, quantity, reason, cost) ==
    [timestamp |-> ts, action |-> action, price |-> price,
     quantity |-> quantity, reason |-> reason, transaction_cost |-> cost]

\* ----------------------------------------------- _execute_backtest: a bar
\* Faulty variant: a strict comparison, so a close equal to the stop level
\* does not trigger.
StopLossHit_Strict(pos, price, entry, c) ==
    /\ pos > 0
    /\ price * StopDen < entry * (StopDen - c.stop_loss_ratio)

\* The stop-loss check: position > 0 and
\* current_price <= entry_price * (1 - stop_loss_ratio).
StopLossHit(pos, price, entry, c) ==
    /\ pos > 0
    /\ price * StopDen <= entry * (StopDen - c.stop_loss_ratio)

\* Faulty variant: the whole cash is invested, max_position_ratio ignored.
BuyQuantity_AllCash(cap, price, c) == cap \div (RateDen * price)

\* quantity = int((capital * max_position_ratio) // current_price).
BuyQuantity(cap, price, c) ==
    (cap * c.max_position_ratio) \div (RateDen * RatioDen * price)

\* Faulty variant: the cost is credited instead of charged.
TransactionCost_Credited(gross, c) == 0 - gross * c.transaction_cost_rate

\* gross * transaction_cost_rate, in units of 1 / RateDen.
TransactionCost(gross, c) == gross * c.transaction_cost_rate

\* Faulty variant: the cash at hand is not compared with the total cost.
Affordable_Unchecked(cap, total_cost) == TRUE

\* if capital >= total_cost.
Affordable(cap, total_cost) == cap >= total_cost

\* Faulty variant: a BUY signal buys even when a position is open.
BuyBranch_WhileLong(signal, pos) == signal = "BUY"

\* if signal == "BUY" and position == 0.
BuyBranch(signal, pos) == signal = "BUY" /\ pos = 0

\* Faulty variant: a SELL signal sells even when no position is open.
SellBranch_WhileFlat(signal, pos) == signal = "SELL"

\* elif signal == "SELL" and position > 0.
SellBranch(signal, pos) == signal = "SELL" /\ pos > 0

\* The body of the buy branch.
ExecBuy(ts, price, reason) ==
    LET quantity         == BuyQuantity(capital, price, config)
        gross_cost       == quantity * price
        transaction_cost == TransactionCost(gross_cost, config)
        total_cost       == gross_cost * RateDen + transaction_cost
    IN  IF quantity > 0 /\ Affordable(capital, total_cost)
        THEN /\ capital' = capital - total_cost
             /\ position' = quantity
             /\ entry_price' = price
             /\ total_transaction_cost' = total_transaction_cost + transaction_cost
             /\ trades' = Append(trades,
                    Trade(ts, "BUY", price, quantity, reason, transaction_cost))
        ELSE UNCHANGED <<capital, position, entry_price,
                         total_transaction_cost, trades>>

\* Faulty variant: the sale credits the gross revenue, the cost not deducted.
ExecSell_GrossCredited(ts, price, reason) ==
    LET gross_revenue    == position * price
        transaction_cost == gross_revenue * config.transaction_cost_rate
    IN  /\ capital' = capital + gross_revenue * RateDen
        /\ total_transaction_cost' = total_transaction_cost + transaction_cost
        /\ trades' = Append(trades,
               Trade(ts, "SELL", price, position, reason, transaction_cost))
        /\ position' = 0
        /\ entry_price' = 0

\* Faulty variant: the sale leaves entry_price at the price of the position
\* it closed.
ExecSell_EntryKept(ts, price, reason) ==
    LET gross_revenue    == position * price
        transaction_cost == gross_revenue * config.transaction_cost_rate
        net_revenue      == gross_revenue * RateDen - transaction_cost
    IN  /\ capital' = capital + net_revenue
        /\ total_transaction_cost' = total_transaction_cost + transaction_cost
        /\ trades' = Append(trades,
               Trade(ts, "SELL", price, position, reason, transaction_cost))
        /\ position' = 0
        /\ entry_price' = entry_price

\* The body of the sell branch.
ExecSell(ts, price, reason) ==
    LET gross_revenue    == position * price
        transaction_cost == TransactionCost(gross_revenue, config)
        net_revenue      == gross_revenue * RateDen - transaction_cost
    IN  /\ capital' = capital + net_revenue
        /\ total_transaction_cost' = total_transaction_cost + transaction_cost
        /\ trades' = Append(trades,
               Trade(ts, "SELL", price, position, reason, transaction_cost))
        /\ position' = 0
        /\ entry_price' = 0

\* Faulty variant: the shares held are left out of the value.
PortfolioValue_CashOnly(cap, pos, price) == cap

\* portfolio_value = capital + (position * current_price).
PortfolioValue(cap, pos, price) == cap + pos * price * RateDen

\* One iteration of the loop over df.iterrows().
ExecBar ==
    /\ pc = "exec"
    /\ i < Len(df)
    /\ LET timestamp     == df[i + 1].ts
           current_price == df[i + 1].close
           stop          == StopLossHit(position, current_price, entry_price, config)
           signal        == IF stop THEN "SELL" ELSE df[i + 1].signal
           reason        == IF stop THEN "STOP_LOSS" ELSE df[i + 1].signal
       IN  /\ IF BuyBranch(signal, position)
                THEN ExecBuy(timestamp, current_price, reason)
              ELSE IF SellBranch(signal, position)
                THEN ExecSell(timestamp, current_price, reason)
              ELSE UNCHANGED <<capital, position, entry_price,
                               total_transaction_cost, trades>>
           /\ portfolio_values' = Append(portfolio_values,
                  PortfolioValue(capital', position', current_price))
    /\ i' = i + 1
    /\ UNCHANGED <<pc, candles, summary, strategy, merged, error, config,
                   initial_capital, df, result, results>>

\* ------------------------------------- _execute_backtest: after the loop
\* len([t for t in trades if t.action == a]).
CountAction(ts, a) == Cardinality({k \in 1..Len(ts) : ts[k].action = a})

Min(a, b) == IF a <= b THEN a ELSE b

\* completed_trades = min(#BUY, #SELL).
CompletedTrades(ts) == Min(CountAction(ts, "BUY"), CountAction(ts, "SELL"))

\* Faulty variant: an open position is left open at the end of the series.
FinalSell_Omitted(ts, cap, pos, cost) ==
    [capital |-> cap, total_transaction_cost |-> cost, trades |-> ts]

\* Faulty variant: the forced sale is priced at the first close of the series.
FinalSell_FirstClose(ts, cap, pos, cost) ==
    IF pos > 0
    THEN LET final_price      == df[1].close
             gross_revenue    == pos * final_price
             transaction_cost == gross_revenue * config.transaction_cost_rate
             net_revenue      == gross_revenue * RateDen - transaction_cost
         IN  [capital |-> cap + net_revenue,
              total_transaction_cost |-> cost + transaction_cost,
              trades |-> Append(ts, Trade(df[Len(df)].ts, "SELL", final_price,
                                          pos, "FINAL_SELL", transaction_cost))]
    ELSE [capital |-> cap, total_transaction_cost |-> cost, trades |-> ts]

\* Faulty variant: the cost of the forced sale is charged but not added to
\* total_transaction_cost.
FinalSell_CostUncounted(ts, cap, pos, cost) ==
    IF pos > 0
    THEN LET final_price      == df[Len(df)].close
             gross_revenue    == pos * final_price
             transaction_cost == gross_revenue * config.transaction_cost_rate
             net_revenue      == gross_revenue * RateDen - transaction_cost
         IN  [capital |-> cap + net_revenue,
              total_transaction_cost |-> cost,
              trades |-> Append(ts, Trade(df[Len(df)].ts, "SELL", final_price,
                                          pos, "FINAL_SELL", transaction_cost))]
    ELSE [capital |-> cap, total_transaction_cost |-> cost, trades |-> ts]

\* The forced sale of an open position at df["close"].iloc[-1].
FinalSell(ts, cap, pos, cost) ==
    IF pos > 0
    THEN LET final_price      == df[Len(df)].close
             gross_revenue    == pos * final_price
             transaction_cost == TransactionCost(gross_revenue, config)
             net_revenue      == gross_revenue * RateDen - transaction_cost
         IN  [capital |-> cap + net_revenue,
              total_transaction_cost |-> cost + transaction_cost,
              trades |-> Append(ts, Trade(df[Len(df)].ts, "SELL", final_price,
                                          pos, "FINAL_SELL", transaction_cost))]
    ELSE [capital |-> cap, total_transaction_cost |-> cost, trades |-> ts]

\* The greatest common divisor of a and b, b >= 0.
RECURSIVE Gcd(_, _)
Gcd(a, b) == IF b = 0 THEN a ELSE Gcd(b, a % b)

\* The denominator of the percentages of a result: total_return_pct,
\* buy_hold_return_pct and alpha are held as numerators over
\* initial_capital * RateDen / 100.
PctDen(ic) == ic * (RateDen \div 100)

\* total_return_pct = (final_capital - initial_capital) / initial_capital * 100.
TotalReturnPct(final_capital, ic) == final_capital - ic * RateDen

\* Faulty variant: the exit cost of the holding is not deducted.
CalculateBuyHoldReturn_NoExitCost(d, ic, c) ==
    IF d = <<>> THEN 0
    ELSE LET start_price == d[1].close
             end_price == d[Len(d)].close
             transaction_cost == TransactionCost(ic, c)
             available_capital == ic * RateDen - transaction_cost
             shares == available_capital \div (start_price * RateDen)
         IN  IF shares <= 0 THEN 0
             ELSE shares * end_price * RateDen - ic * RateDen

\* _calculate_buy_hold_return, over PctDen(ic).
CalculateBuyHoldReturn(d, ic, c) ==
    IF d = <<>> THEN 0
    ELSE LET start_price == d[1].close
             end_price == d[Len(d)].close
             transaction_cost == TransactionCost(ic, c)
             available_capital == ic * RateDen - transaction_cost
             shares == available_capital \div (start_price * RateDen)
         IN  IF shares <= 0 THEN 0
             ELSE LET final_value == shares * end_price
                      final_transaction_cost == TransactionCost(final_value, c)
                      final_capital == final_value * RateDen - final_transaction_cost
                  IN  final_capital - ic * RateDen

\* Faulty variant: a break-even pair counts as a win.
IsWin_BreakEven(sell_revenue, buy_cost) == sell_revenue >= buy_cost

\* sell_revenue > buy_cost.
IsWin(sell_revenue, buy_cost) == sell_revenue > buy_cost

\* The loop of _calculate_win_loss_trades from trade k on, with the BUY
\* trades still unmatched (oldest first) and the counts so far.
RECURSIVE WinLossFrom(_, _, _, _)
WinLossFrom(ts, k, buy_stack, counts) ==
    IF k > Len(ts) THEN counts
    ELSE IF ts[k].action = "BUY"
         THEN WinLossFrom(ts, k + 1, Append(buy_stack, ts[k]), counts)
    ELSE IF ts[k].action = "SELL" /\ buy_stack # <<>>
         THEN LET buy_trade == Head(buy_stack)
                  buy_cost == buy_trade.price * buy_trade.quantity * RateDen
                                + buy_trade.transaction_cost
                  sell_revenue == ts[k].price * ts[k].quantity * RateDen
                                    - ts[k].transaction_cost
              IN  WinLossFrom(ts, k + 1, Tail(buy_stack),
                      IF IsWin(sell_revenue, buy_cost)
                      THEN [counts EXCEPT !.winning_trades = @ + 1]
                      ELSE [counts EXCEPT !.losing_trades = @ + 1])
    ELSE WinLossFrom(ts, k + 1, buy_stack, counts)

\* Faulty variant: the forced final sale is not offered to the matcher.
CalculateWinLossTrades_FinalSellSkipped(ts) ==
    WinLossFrom(SelectSeq(ts, LAMBDA t : t.reason # "FINAL_SELL"), 1, <<>>,
                [winning_trades |-> 0, losing_trades |-> 0])

\* _calculate_win_loss_trades.
CalculateWinLossTrades(ts) ==
    WinLossFrom(ts, 1, <<>>, [winning_trades |-> 0, losing_trades |-> 0])

\* The ratio num / den of two integers, den > 0, in lowest terms; as a
\* percentage it stands for num / den * 100.
Pct(num, den) == [num |-> num \div Gcd(num, den), den |-> den \div Gcd(num, den)]

\* win_rate = winning / max(1, winning + losing) * 100.
WinRate(wl) ==
    LET total == wl.winning_trades + wl.losing_trades
    IN  Pct(wl.winning_trades, IF total >= 1 THEN total ELSE 1)

\* a / b < c / d for b > 0 and d > 0, decided on the integer parts and then
\* on the inverted remainders.
RECURSIVE FracLess(_, _, _, _)
FracLess(a, b, c, d) ==
    IF a \div b # c \div d THEN a \div b < c \div d
    ELSE IF c % d = 0 THEN FALSE
    ELSE IF a % b = 0 THEN TRUE
    ELSE FracLess(d, c % d, b, a % b)

\* portfolio_df["value"].cummax() of row k.
CumMax(pv, k) == CHOOSE v \in {pv[j] : j \in 1..k} : \A j \in 1..k : pv[j] <= v

\* _calculate_max_drawdown: 0 for the empty curve, else the least
\* (value - cummax) / cummax, times 100.
CalculateMaxDrawdown(pv) ==
    IF pv = <<>> THEN Pct(0, 1)
    ELSE LET worst == CHOOSE k \in 1..Len(pv) : \A j \in 1..Len(pv) :
                          ~FracLess(pv[j], CumMax(pv, j), pv[k], CumMax(pv, k))
         IN  Pct(pv[worst] - CumMax(pv, worst), CumMax(pv, worst))

\* The rows k of the curve whose return pv[k + 1] / pv[k] - 1 is kept by
\* Series.pct_change().dropna(): all but 0 / 0, which is NaN.
ReturnRows(pv) == { k \in 1..(Len(pv) - 1) : ~(pv[k] = 0 /\ pv[k + 1] = 0) }

\* The returns of rows j and k are equal (pv[j] and pv[k] not 0).
SameReturn(pv, j, k) ==
    LET sj == IF pv[j] < 0 THEN -1 ELSE 1
        sk == IF pv[k] < 0 THEN -1 ELSE 1
    IN  Pct(pv[j + 1] * sj, pv[j] * sj) = Pct(pv[k + 1] * sk, pv[k] * sk)

\* _calculate_sharpe_ratio: "0.0" for fewer than two points and for returns
\* whose standard deviation is 0 (two returns or more, all equal); "nan"
\* when the deviation is NaN, which is not == 0 and then divides the mean:
\* a single return (the sample deviation of one value) or an infinite one
\* (a value after a 0); else the quotient, a float that is not computed
\* here.
CalculateSharpeRatio(pv) ==
    IF Len(pv) < 2 THEN "0.0"
    ELSE IF \E k \in ReturnRows(pv) : pv[k] = 0 THEN "nan"
    ELSE IF Cardinality(ReturnRows(pv)) < 2 THEN "nan"
    ELSE IF \A j, k \in ReturnRows(pv) : SameReturn(pv, j, k) THEN "0.0"
    ELSE "mean / std * sqrt(252)"

\* The BacktestResult built from the state after the final sale (ticker,
\* start_date and end_date are passed through and left out).
BacktestResult(fin) ==
    LET wl == CalculateWinLossTrades(fin.trades)
        total_return_pct == TotalReturnPct(fin.capital, initial_capital)
        buy_hold_return_pct == CalculateBuyHoldReturn(df, initial_capital, config)
    IN  [initial_capital |-> initial_capital,
         final_capital |-> fin.capital,
         total_return_pct |-> total_return_pct,
         buy_hold_return_pct |-> buy_hold_return_pct,
         alpha |-> total_return_pct - buy_hold_return_pct,
         total_trades |-> CompletedTrades(fin.trades),
         winning_trades |-> wl.winning_trades,
         losing_trades |-> wl.losing_trades,
         win_rate |-> WinRate(wl),
         max_drawdown |-> CalculateMaxDrawdown(portfolio_values),
         sharpe_ratio |-> CalculateSharpeRatio(portfolio_values),
         total_transaction_cost |-> fin.total_transaction_cost,
         trades |-> fin.trades]

\* The loop has ended: final liquidation, statistics, return.  position is
\* not reset by the source after the final sale.
Finish ==
    /\ pc = "exec"
    /\ i = Len(df)
    /\ LET fin == FinalSell(trades, capital, position, total_transaction_cost)
       IN  /\ capital' = fin.capital
           /\ total_transaction_cost' = fin.total_transaction_cost
           /\ trades' = fin.trades
           /\ result' = BacktestResult(fin)
    /\ pc' = "done"
    /\ UNCHANGED <<candles, summary, strategy, merged, error, config,
                   initial_capital, df, i, position, entry_price,
                   portfolio_values, results>>

\* ------------------------------------------------------------------ Spec
\* The state at the entry of _execute_backtest's loop.
CoreStart ==
    /\ i = 0
    /\ capital = initial_capital * RateDen
    /\ position = 0
    /\ entry_price = 0
    /\ trades = <<>>
    /\ portfolio_values = <<>>
    /\ total_transaction_cost = 0

Init ==
    /\ pc = "exec"
    /\ candles = <<>> /\ summary = <<>> /\ strategy = Null /\ merged = <<>>
    /\ error = Null
    /\ config \in BacktestConfig
    /\ initial_capital \in InitialCapitals
    /\ \E rows \in SeqUpTo(BarRows, MaxBars) : df = WithIndex(rows)
    /\ CoreStart
    /\ result = Null
    /\ results = <<>>

Next == ExecBar \/ Finish

Spec == Init /\ [][Next]_vars

\* --------------------------------------------------- run_signal_backtest
\* Faulty variant: a zero price passes, only a negative one is rejected.
NonPositive_NegativeOnly(v) == v # NaN /\ v < 0

\* _validate_data: empty frame, then (df[col] <= 0).any() column by column;
\* a missing value compares False and passes.  Null when nothing is raised.
NonPositive(v) == v # NaN /\ v <= 0

\* Faulty variant: the empty frame is not rejected.
ValidationError_EmptyAccepted(cs) ==
    IF \E k \in 1..Len(cs) : cs[k].open # NaN /\ cs[k].open <= 0
        THEN "Invalid price data detected in open"
    ELSE IF \E k \in 1..Len(cs) : cs[k].high # NaN /\ cs[k].high <= 0
        THEN "Invalid price data detected in high"
    ELSE IF \E k \in 1..Len(cs) : cs[k].low # NaN /\ cs[k].low <= 0
        THEN "Invalid price data detected in low"
    ELSE IF \E k \in 1..Len(cs) : cs[k].close # NaN /\ cs[k].close <= 0
        THEN "Invalid price data detected in close"
    ELSE Null

ValidationError(cs) ==
    IF cs = <<>> THEN "No candle data found"
    ELSE IF \E k \in 1..Len(cs) : NonPositive(cs[k].open)
        THEN "Invalid price data detected in open"
    ELSE IF \E k \in 1..Len(cs) : NonPositive(cs[k].high)
        THEN "Invalid price data detected in high"
    ELSE IF \E k \in 1..Len(cs) : NonPositive(cs[k].low)
        THEN "Invalid price data detected in low"
    ELSE IF \E k \in 1..Len(cs) : NonPositive(cs[k].close)
        THEN "Invalid price data detected in close"
    ELSE Null

ValidateData ==
    /\ pc = "validate"
    /\ LET e == ValidationError(candles)
       IN  IF e # Null
           THEN pc' = "error" /\ error' = e
           ELSE pc' = "merge" /\ error' = error
    /\ UNCHANGED <<candles, summary, strategy, merged, config, initial_capital,
                   df, i, capital, position, entry_price, trades,
                   portfolio_values, total_transaction_cost, result,
                   results>>

\* pd.notna(row["close"]).
HasClose(row) == row.close # NaN

\* _merge_backtest_data: left join of the candles with the summary on the
\* timestamp, then dropna(subset=["close"]).
MergeBacktestData(cs, sm) ==
    SelectSeq([k \in 1..Len(cs) |-> [ts |-> k, level |-> sm[k]] @@ cs[k]], HasClose)

MergeData ==
    /\ pc = "merge"
    /\ merged' = MergeBacktestData(candles, summary)
    /\ pc' = "signals"
    /\ UNCHANGED <<candles, summary, strategy, error, config, initial_capital,
                   df, i, capital, position, entry_price, trades,
                   portfolio_values, total_transaction_cost, result,
                   results>>

\* ------------------------------------------------------ signal generators
\* row.get(col, dflt): the cell, or dflt when the frame has no such column.
RowGet(row, col, dflt) == IF col \in DOMAIN row THEN row[col] ELSE dflt

\* pd.notna(row.get("level")).
HasLevel(row) == RowGet(row, "level", Null) # Null

\* _generate_summary_signals: the signal of one row.
SummarySignal(row) ==
    IF HasLevel(row) /\ row.level \in {"STRONG_BUY", "BUY"} THEN "BUY"
    ELSE IF HasLevel(row) /\ row.level \in {"STRONG_SELL", "SELL"} THEN "SELL"
    ELSE "HOLD"

\* The signal column written next to the index and the close of each row.
WithSignal(m, sig) ==
    [k \in 1..Len(m) |-> [ts |-> m[k].ts, close |-> m[k].close, signal |-> sig[k]]]

GenerateSummarySignals(m) ==
    WithSignal(m, [k \in 1..Len(m) |-> SummarySignal(m[k])])

\* Faulty variant: the bounds 30 and 70 themselves trigger.
RsiSignal_Inclusive(row) ==
    LET rsi14 == RowGet(row, "rsi14", NaN)
    IN  IF rsi14 # NaN /\ rsi14 <= 30 THEN "BUY"
        ELSE IF rsi14 # NaN /\ rsi14 >= 70 THEN "SELL"
        ELSE "HOLD"

\* _generate_rsi_signals: the signal of one row.
RsiSignal(row) ==
    LET rsi14 == RowGet(row, "rsi14", NaN)
    IN  IF rsi14 # NaN /\ rsi14 < 30 THEN "BUY"
        ELSE IF rsi14 # NaN /\ rsi14 > 70 THEN "SELL"
        ELSE "HOLD"

GenerateRsiSignals(m) ==
    WithSignal(m, [k \in 1..Len(m) |-> RsiSignal(m[k])])

\* The merged frame has the columns of the indicators table: the join of
\* _merge_backtest_data was made.  (A frame is held as its rows, so a frame
\* without rows counts as one without these columns.)
HasIndicatorColumns(m) ==
    m # <<>> /\ {"macd", "macd_signal"} \subseteq DOMAIN m[1]

\* df_copy["macd"] - df_copy["macd_signal"] of row k.
MacdDiff(m, k) ==
    IF m[k].macd = NaN \/ m[k].macd_signal = NaN THEN NaN
    ELSE m[k].macd - m[k].macd_signal

\* Faulty variant: the neighbour consulted is the next row (shift(-1)).
PrevMacdDiff_Next(m, k) == IF k = Len(m) THEN NaN ELSE MacdDiff(m, k + 1)

\* df_copy["macd_diff"].shift(1) of row k.
PrevMacdDiff(m, k) == IF k = 1 THEN NaN ELSE MacdDiff(m, k - 1)

\* Faulty variant: the golden cross needs a strictly negative previous
\* difference, the dead cross a strictly positive one.
MacdSignal_StrictCross(m, k) ==
    LET macd_diff == MacdDiff(m, k)
        prev_macd_diff == PrevMacdDiff(m, k)
    IN  IF macd_diff # NaN /\ prev_macd_diff # NaN
        THEN IF prev_macd_diff < 0 /\ macd_diff > 0 THEN "BUY"
             ELSE IF prev_macd_diff > 0 /\ macd_diff < 0 THEN "SELL"
             ELSE "HOLD"
        ELSE "HOLD"

\* _generate_macd_signals: the signal of row k.
MacdSignal(m, k) ==
    LET macd_diff == MacdDiff(m, k)
        prev_macd_diff == PrevMacdDiff(m, k)
    IN  IF macd_diff # NaN /\ prev_macd_diff # NaN
        THEN IF prev_macd_diff <= 0 /\ macd_diff > 0 THEN "BUY"
             ELSE IF prev_macd_diff >= 0 /\ macd_diff < 0 THEN "SELL"
             ELSE "HOLD"
        ELSE "HOLD"

GenerateMacdSignals(m) ==
    WithSignal(m, [k \in 1..Len(m) |-> MacdSignal(m, k)])

\* The close column.
Closes(m) == [k \in 1..Len(m) |-> m[k].close]

\* x[a] + ... + x[b], summed by halves.
RECURSIVE SumRange(_, _, _)
SumRange(x, a, b) ==
    IF a > b THEN 0
    ELSE IF a = b THEN x[a]
    ELSE LET mid == (a + b) \div 2
         IN  SumRange(x, a, mid) + SumRange(x, mid + 1, b)

\* rolling(window=w).mean() of row k, times w: the sum of the w rows ending
\* at k; NaN while fewer than w rows exist.  cs is the close column.
RollingSum(cs, k, w) ==
    IF k < w THEN NaN ELSE SumRange(cs, k - w + 1, k)

\* base_signal of a row: BUY, SELL or None.
BaseSignal(row) ==
    IF ~HasLevel(row) THEN Null
    ELSE IF row.level \in {"STRONG_BUY", "BUY"} THEN "BUY"
    ELSE IF row.level \in {"STRONG_SELL", "SELL"} THEN "SELL"
    ELSE Null

\* Faulty variant: the 200-row average is not consulted.
IsUptrend_Ma50Only(m, cs, k) ==
    LET s50 == RollingSum(cs, k, 50)
    IN  s50 # NaN /\ m[k].close * 50 > s50

\* close > ma50 > ma200, both averages defined.
IsUptrend(m, cs, k) ==
    LET s50 == RollingSum(cs, k, 50)
        s200 == RollingSum(cs, k, 200)
    IN  /\ s50 # NaN /\ s200 # NaN
        /\ m[k].close * 50 > s50
        /\ s50 * 200 > s200 * 50

\* close.pct_change(20) defined and > 0.10.
StrongUptrend(m, k) ==
    /\ k > 20
    /\ (m[k].close - m[k - 20].close) * 10 > m[k - 20].close

\* _generate_trend_filtered_signals: the signal of row k.
TrendFilteredSignal(m, cs, k) ==
    LET base_signal == BaseSignal(m[k])
    IN  IF base_signal = "BUY" THEN "BUY"
        ELSE IF base_signal = "SELL"
             THEN IF ~(IsUptrend(m, cs, k) \/ StrongUptrend(m, k)) THEN "SELL"
                  ELSE "HOLD"
        ELSE "HOLD"

GenerateTrendFilteredSignals(m) ==
    LET cs == Closes(m)
    IN  WithSignal(m, [k \in 1..Len(m) |-> TrendFilteredSignal(m, cs, k)])

\* close > ma20 > ma50 > ma200 and (close - ma50) / ma50 > 0.15.
IsStrongBull(m, cs, k) ==
    LET s20 == RollingSum(cs, k, 20)
        s50 == RollingSum(cs, k, 50)
        s200 == RollingSum(cs, k, 200)
    IN  /\ s20 # NaN /\ s50 # NaN /\ s200 # NaN
        /\ m[k].close * 20 > s20
        /\ s20 * 50 > s50 * 20
        /\ s50 * 200 > s200 * 50
        /\ (m[k].close * 50 - s50) * 20 > 3 * s50

\* close < ma50 < ma200.
IsBearMarket(m, cs, k) ==
    LET s50 == RollingSum(cs, k, 50)
        s200 == RollingSum(cs, k, 200)
    IN  /\ s50 # NaN /\ s200 # NaN
        /\ m[k].close * 50 < s50
        /\ s50 * 200 < s200 * 50

\* _generate_market_adaptive_signals: the signal of row k.
MarketAdaptiveSignal(m, cs, k) ==
    LET base_signal == BaseSignal(m[k])
    IN  IF base_signal = Null THEN "HOLD"
        ELSE IF IsStrongBull(m, cs, k)
             THEN IF base_signal = "BUY" THEN "BUY" ELSE "HOLD"
        ELSE IF IsBearMarket(m, cs, k) THEN base_signal
        ELSE IF m[k].level \in {"STRONG_BUY", "STRONG_SELL"} THEN base_signal
        ELSE "HOLD"

GenerateMarketAdaptiveSignals(m) ==
    LET cs == Closes(m)
    IN  WithSignal(m, [k \in 1..Len(m) |-> MarketAdaptiveSignal(m, cs, k)])

\* close < ma200 * 0.9 (False while ma200 is undefined).
BelowMa200(m, cs, k) ==
    LET s200 == RollingSum(cs, k, 200)
    IN  s200 # NaN /\ m[k].close * 10 * 200 < s200 * 9

\* Faulty variant: the flag is not consulted, every BUY level buys again.
BuyHoldFirstStep_FlagIgnored(m, cs, k, position_held) ==
    IF HasLevel(m[k]) /\ m[k].level \in {"STRONG_BUY", "BUY"}
    THEN [signals |-> <<"BUY">>, state |-> TRUE]
    ELSE IF position_held /\ HasLevel(m[k]) /\ m[k].level = "STRONG_SELL"
            /\ BelowMa200(m, cs, k)
         THEN [signals |-> <<"SELL">>, state |-> FALSE]
         ELSE [signals |-> <<"HOLD">>, state |-> position_held]

\* _generate_buy_hold_first_signals: one pass of the loop body, on row k
\* with the flag position_held; the signal and the flag afterwards.
BuyHoldFirstStep(m, cs, k, position_held) ==
    IF ~position_held
    THEN IF HasLevel(m[k]) /\ m[k].level \in {"STRONG_BUY", "BUY"}
         THEN [signals |-> <<"BUY">>, state |-> TRUE]
         ELSE [signals |-> <<"HOLD">>, state |-> FALSE]
    ELSE IF HasLevel(m[k]) /\ m[k].level = "STRONG_SELL" /\ BelowMa200(m, cs, k)
         THEN [signals |-> <<"SELL">>, state |-> FALSE]
         ELSE [signals |-> <<"HOLD">>, state |-> TRUE]

\* The loop over rows a..b entered with the flag position_held, run by
\* halves: the signals of the rows and the flag on exit.
RECURSIVE BuyHoldFirstLoop(_, _, _, _, _)
BuyHoldFirstLoop(m, cs, a, b, position_held) ==
    IF a > b THEN [signals |-> <<>>, state |-> position_held]
    ELSE IF a = b THEN BuyHoldFirstStep(m, cs, a, position_held)
    ELSE LET mid == (a + b) \div 2
             head == BuyHoldFirstLoop(m, cs, a, mid, position_held)
             tail == BuyHoldFirstLoop(m, cs, mid + 1, b, head.state)
         IN  [signals |-> head.signals \o tail.signals, state |-> tail.state]

\* Faulty variant: the generator follows the levels without its flag, as if
\* it knew the core to be flat.
GenerateBuyHoldFirstSignals_LevelOnly(m) ==
    WithSignal(m, [k \in 1..Len(m) |->
        IF HasLevel(m[k]) /\ m[k].level \in {"STRONG_BUY", "BUY"} THEN "BUY"
        ELSE IF HasLevel(m[k]) /\ m[k].level = "STRONG_SELL"
                /\ BelowMa200(m, Closes(m), k) THEN "SELL"
        ELSE "HOLD"])

GenerateBuyHoldFirstSignals(m) ==
    WithSignal(m, BuyHoldFirstLoop(m, Closes(m), 1, Len(m), FALSE).signals)

\* cooldown_period of _generate_low_frequency_signals.
cooldown_period == 15
\* last_trade_idx before the first trade: -float("inf").
NegInf == -1000001

\* df_copy["trend_up"] of row k: ma20 > ma50, False while either is undefined.
TrendUp(cs, k) ==
    LET s20 == RollingSum(cs, k, 20)
        s50 == RollingSum(cs, k, 50)
    IN  s20 # NaN /\ s50 # NaN /\ s20 * 50 > s50 * 20

\* df_copy["trend_change"] of row k: trend_up != trend_up.shift(1); the
\* shifted value of the first row is NaN, which differs from every bool.
TrendChange(cs, k) == k = 1 \/ TrendUp(cs, k) # TrendUp(cs, k - 1)

\* i - last_trade_idx < cooldown_period.
InCooldown(idx, last_trade_idx) ==
    last_trade_idx # NegInf /\ idx - last_trade_idx < cooldown_period

\* _generate_low_frequency_signals: one pass of the loop body, on row k
\* (enumerate index k - 1) with last_trade_idx; the signal and
\* last_trade_idx afterwards.
LowFrequencyStep(m, cs, k, last_trade_idx) ==
    IF InCooldown(k - 1, last_trade_idx)
    THEN [signals |-> <<"HOLD">>, state |-> last_trade_idx]
    ELSE IF /\ HasLevel(m[k]) /\ m[k].level \in {"STRONG_BUY", "STRONG_SELL"}
            /\ TrendChange(cs, k)
            /\ m[k].level = "STRONG_BUY" /\ TrendUp(cs, k)
         THEN [signals |-> <<"BUY">>, state |-> k - 1]
    ELSE IF /\ HasLevel(m[k]) /\ m[k].level \in {"STRONG_BUY", "STRONG_SELL"}
            /\ TrendChange(cs, k)
            /\ m[k].level = "STRONG_SELL" /\ ~TrendUp(cs, k)
         THEN [signals |-> <<"SELL">>, state |-> k - 1]
    ELSE [signals |-> <<"HOLD">>, state |-> last_trade_idx]

\* The loop over rows a..b entered with last_trade_idx, run by halves.
RECURSIVE LowFrequencyLoop(_, _, _, _, _)
LowFrequencyLoop(m, cs, a, b, last_trade_idx) ==
    IF a > b THEN [signals |-> <<>>, state |-> last_trade_idx]
    ELSE IF a = b THEN LowFrequencyStep(m, cs, a, last_trade_idx)
    ELSE LET mid == (a + b) \div 2
             head == LowFrequencyLoop(m, cs, a, mid, last_trade_idx)
             tail == LowFrequencyLoop(m, cs, mid + 1, b, head.state)
         IN  [signals |-> head.signals \o tail.signals, state |-> tail.state]

GenerateLowFrequencySignals(m) ==
    WithSignal(m, LowFrequencyLoop(m, Closes(m), 1, Len(m), NegInf).signals)

Abs(x) == IF x < 0 THEN -x ELSE x

\* The difference of two cells, NaN when either is.
NaNMinus(a, b) == IF a = NaN \/ b = NaN THEN NaN ELSE a - b
\* max(axis=1) of a row of cells: NaN cells are skipped, NaN when all are.
RowMax(cells) ==
    LET present == { c \in cells : c # NaN }
    IN  IF present = {} THEN NaN
        ELSE CHOOSE c \in present : \A d \in present : d <= c

\* df_copy["tr"] of row k: the largest of high - low, |high - previous close|
\* and |low - previous close|.
TrueRange(m, k) ==
    LET high_low == NaNMinus(m[k].high, m[k].low)
        high_close == IF k = 1 \/ m[k].high = NaN THEN NaN
                      ELSE Abs(m[k].high - m[k - 1].close)
        low_close == IF k = 1 \/ m[k].low = NaN THEN NaN
                     ELSE Abs(m[k].low - m[k - 1].close)
    IN  RowMax({high_low, high_close, low_close})

\* The sum of f over the 14 rows ending at k, NaN when one of them is.
RECURSIVE SumNaN(_, _, _)
SumNaN(f, a, b) ==
    IF a > b THEN 0
    ELSE LET rest == SumNaN(f, a + 1, b)
         IN  IF f[a] = NaN \/ rest = NaN THEN NaN ELSE f[a] + rest

\* A common denominator of the fractions x / close: the least common
\* multiple of the closes.
RECURSIVE CloseLcm(_)
CloseLcm(cl) ==
    IF cl = <<>> THEN 1
    ELSE LET l == CloseLcm(Tail(cl))
         IN  (l \div Gcd(l, Head(cl))) * Head(cl)

\* adx_estimate of row k is > 25, with NaN replaced by 0:
\*   mean14(|pct_change(close)|) / atr14 * close * 100,
\* the 14 relative changes held over their common denominator lcm.
AdxAbove25(m, k) ==
    IF k < 15 THEN FALSE
    ELSE LET lcm == CloseLcm([j \in 1..14 |-> m[k - 15 + j].close])
             price_change == [j \in (k - 13)..k |->
                 Abs(m[j].close - m[j - 1].close) * (lcm \div m[j - 1].close)]
             tr == [j \in (k - 13)..k |-> TrueRange(m, j)]
             change14 == SumNaN(price_change, k - 13, k)
             tr14 == SumNaN(tr, k - 13, k)
         IN  IF tr14 = NaN THEN FALSE
             ELSE IF tr14 = 0 THEN change14 > 0
             ELSE change14 * m[k].close * 100 > 25 * lcm * tr14

\* _generate_adx_filtered_signals: the signal of row k.
AdxFilteredSignal(m, k) ==
    IF AdxAbove25(m, k) THEN SummarySignal(m[k]) ELSE "HOLD"

GenerateAdxFilteredSignals(m) ==
    WithSignal(m, [k \in 1..Len(m) |-> AdxFilteredSignal(m, k)])

\* _generate_momentum_reversal_signals: the signal of one row.
MomentumReversalSignal(row) ==
    LET rsi == RowGet(row, "rsi14", 50)
        stoch == RowGet(row, "stoch_k", 50)
        cci == RowGet(row, "cci14", 0)
        extreme_oversold ==
            /\ rsi # NaN /\ rsi < 25
            /\ stoch # NaN /\ stoch < 20
            /\ cci # NaN /\ cci < -150
        extreme_overbought ==
            /\ rsi # NaN /\ rsi > 75
            /\ stoch # NaN /\ stoch > 80
            /\ cci # NaN /\ cci > 150
    IN  IF extreme_oversold THEN "BUY"
        ELSE IF extreme_overbought THEN "SELL"
        ELSE "HOLD"

GenerateMomentumReversalSignals(m) ==
    WithSignal(m, [k \in 1..Len(m) |-> MomentumReversalSignal(m[k])])

\* df_copy["volatility"] of row k, the sample standard deviation of the 20
\* relative changes ending there, is defined and above 0.02:
\*   (20 * sum(r^2) - sum(r)^2) / (20 * 19) > 0.02^2,
\* the changes held over their common denominator lcm.  NaN up to row 20.
VolatilityAbove002(m, k) ==
    /\ k > 20
    /\ LET lcm == CloseLcm([j \in 1..20 |-> m[k - 21 + j].close])
           change == [j \in (k - 19)..k |->
               (m[j].close - m[j - 1].close) * (lcm \div m[j - 1].close)]
           square == [j \in (k - 19)..k |-> change[j] * change[j]]
           sum == SumRange(change, k - 19, k)
           squares == SumRange(square, k - 19, k)
       IN  (20 * squares - sum * sum) * 125 > 19 * lcm * lcm

\* base_position = min(1.0, 0.02 / max(volatility, 0.01)): 1.0 while the
\* volatility is NaN (max and min keep their first argument against NaN) and
\* while it is at most 0.02, the quotient beyond.
BasePosition(m, k) ==
    IF VolatilityAbove002(m, k) THEN "0.02 / volatility" ELSE "1.0"

\* position_size of row k: base_position times the share of the level, in
\* tenths; 1.0 for a row without a level or of level NEUTRAL.
PositionSize(m, k) ==
    IF ~HasLevel(m[k]) THEN [base_position |-> "1.0", share |-> 10]
    ELSE IF m[k].level \in {"STRONG_BUY", "STRONG_SELL"}
         THEN [base_position |-> BasePosition(m, k), share |-> 10]
    ELSE IF m[k].level \in {"BUY", "SELL"}
         THEN [base_position |-> BasePosition(m, k), share |-> 6]
    ELSE [base_position |-> "1.0", share |-> 10]

\* Faulty variant: only the strong levels trade.
PositionSizingSignal_StrongOnly(row) ==
    IF ~HasLevel(row) THEN "HOLD"
    ELSE IF row.level = "STRONG_BUY" THEN "BUY"
    ELSE IF row.level = "STRONG_SELL" THEN "SELL"
    ELSE "HOLD"

\* _generate_position_sizing_signals: the signal of one row.
PositionSizingSignal(row) ==
    IF ~HasLevel(row) THEN "HOLD"
    ELSE IF row.level = "STRONG_BUY" THEN "BUY"
    ELSE IF row.level = "BUY" THEN "BUY"
    ELSE IF row.level = "STRONG_SELL" THEN "SELL"
    ELSE IF row.level = "SELL" THEN "SELL"
    ELSE "HOLD"

\* The signal column and the position_size column written next to it.
GeneratePositionSizingSignals(m) ==
    [k \in 1..Len(m) |->
        [ts |-> m[k].ts, close |-> m[k].close,
         signal |-> PositionSizingSignal(m[k]),
         position_size |-> PositionSize(m, k)]]

\* The signal generator of a catalogue name.
StrategySignals(name, m) ==
    CASE name = "technical_summary" -> GenerateSummarySignals(m)
      [] name = "rsi" -> GenerateRsiSignals(m)
      [] name = "macd" -> GenerateMacdSignals(m)
      [] name = "trend_filtered" -> GenerateTrendFilteredSignals(m)
      [] name = "market_adaptive" -> GenerateMarketAdaptiveSignals(m)
      [] name = "buy_hold_first" -> GenerateBuyHoldFirstSignals(m)
      [] name = "low_frequency" -> GenerateLowFrequencySignals(m)
      [] name = "adx_filtered" -> GenerateAdxFilteredSignals(m)
      [] name = "momentum_reversal" -> GenerateMomentumReversalSignals(m)
      [] name = "position_sizing" -> GeneratePositionSizingSignals(m)

\* The exception a generator raises: df_copy["macd"] of a frame without the
\* indicator columns is a KeyError.  Null when nothing is raised.
StrategyError(name, m) ==
    IF name = "macd" /\ ~HasIndicatorColumns(m) THEN "KeyError: 'macd'"
    ELSE Null

\* Faulty variant: a name outside the catalogue falls through to the
\* summary strategy instead of raising.
GenerateSignals_DefaultStrategy ==
    /\ pc = "signals"
    /\ df' = GenerateSummarySignals(merged)
    /\ pc' = "exec"
    /\ UNCHANGED <<candles, summary, strategy, merged, error, config,
                   initial_capital, i, capital, position, entry_price, trades,
                   portfolio_values, total_transaction_cost, result,
                   results>>

\* The dispatch on the strategy name, then the entry of _execute_backtest.
GenerateSignals ==
    /\ pc = "signals"
    /\ IF strategy \notin Catalogue
       THEN /\ error' = "Unknown strategy"
            /\ pc' = "error"
            /\ df' = df
       ELSE IF StrategyError(strategy, merged) # Null
       THEN /\ error' = StrategyError(strategy, merged)
            /\ pc' = "error"
            /\ df' = df
       ELSE /\ df' = StrategySignals(strategy, merged)
            /\ pc' = "exec"
            /\ error' = error
    /\ UNCHANGED <<candles, summary, strategy, merged, config, initial_capital,
                   i, capital, position, entry_price, trades,
                   portfolio_values, total_transaction_cost, result,
                   results>>

\* BacktestConfig() of the defaults.
DefaultConfig ==
    [transaction_cost_rate |-> 3, max_position_ratio |-> 19, stop_loss_ratio |-> 1]

InitRun ==
    /\ pc = "validate"
    /\ candles \in SeqUpTo(CandleRows, MaxRows)
    /\ summary \in [1..Len(candles) -> RunLevels]
    /\ strategy \in RunStrategies
    /\ merged = <<>>
    /\ error = Null
    /\ config = DefaultConfig
    /\ initial_capital = 10000
    /\ df = <<>>
    /\ CoreStart
    /\ result = Null
    /\ results = <<>>

NextRun == ValidateData \/ MergeData \/ GenerateSignals \/ ExecBar \/ Finish

SpecRun == InitRun /\ [][NextRun]_vars

\* ------------------------------------------- a second run at a higher rate
\* The rates of the configurations.
CostRates == { cr[1] : cr \in CostAndRatio }

\* Faulty variant: the cash is a field of the engine that outlives the run.
StartingCapital_EngineField(ic) == capital

\* capital = initial_capital, at the entry of _execute_backtest.
StartingCapital(ic) == ic * RateDen

\* The locals of _execute_backtest as a new call creates them.
FreshLocals ==
    /\ i' = 0
    /\ capital' = StartingCapital(initial_capital)
    /\ position' = 0
    /\ entry_price' = 0
    /\ trades' = <<>>
    /\ portfolio_values' = <<>>
    /\ total_transaction_cost' = 0

\* BacktestEngine(config) with a higher transaction_cost_rate and every other
\* field equal, run over the same signal-annotated series and capital once
\* the first run has returned.  Two runs are compared, so one re-run.
RunCostlier ==
    /\ pc = "done"
    /\ results = <<>>
    /\ \E rate \in CostRates :
          /\ rate > config.transaction_cost_rate
          /\ config' = [config EXCEPT !.transaction_cost_rate = rate]
    /\ results' = Append(results, result)
    /\ result' = Null
    /\ pc' = "exec"
    /\ FreshLocals
    /\ UNCHANGED <<candles, summary, strategy, merged, error,
                   initial_capital, df>>

\* The configurations of the cheaper run: the rates 0 and 0.0015, the ratios
\* 0.95 and 1.0, the default stop.
CheaperConfigs ==
    { c \in BacktestConfig :
         /\ c.transaction_cost_rate < RateDen
         /\ c.stop_loss_ratio = DefaultConfig.stop_loss_ratio }
        \cup { [DefaultConfig EXCEPT !.transaction_cost_rate = 0] }

\* The entry of _execute_backtest for the cheaper run.
InitCost ==
    /\ pc = "exec"
    /\ candles = <<>> /\ summary = <<>> /\ strategy = Null /\ merged = <<>>
    /\ error = Null
    /\ config \in CheaperConfigs
    /\ initial_capital = 10000
    /\ \E rows \in SeqUpTo(BarRows, MaxBars) : df = WithIndex(rows)
    /\ CoreStart
    /\ result = Null
    /\ results = <<>>

NextCost == ExecBar \/ Finish \/ RunCostlier

SpecCost == InitCost /\ [][NextCost]_vars

\* --------------------------------------- dispatch over a given merged frame
\* The dispatch of run_signal_backtest entered with a merged frame and a
\* catalogue name, up to the entry of _execute_backtest.
InitSig ==
    /\ pc = "signals"
    /\ \E in \in SigInputs(MaxSigRows) : strategy = in[1] /\ merged = in[2]
    /\ candles = <<>>
    /\ summary = <<>>
    /\ error = Null
    /\ config = DefaultConfig
    /\ initial_capital = 10000
    /\ df = <<>>
    /\ CoreStart
    /\ result = Null
    /\ results = <<>>

NextSig == GenerateSignals

SpecSig == InitSig /\ [][NextSig]_vars

\* --------------------------------------------- the same run, a second time
\* The engine is called again with the arguments of the run that has just
\* returned: the same merged series, strategy, config and capital.  The
\* frame with the signal column and the locals of the first call are gone;
\* its result is kept by the caller.  Two runs are compared, so one re-run.
RunAgain ==
    /\ pc = "done"
    /\ results = <<>>
    /\ results' = Append(results, result)
    /\ result' = Null
    /\ df' = <<>>
    /\ pc' = "signals"
    /\ FreshLocals
    /\ UNCHANGED <<candles, summary, strategy, merged, error, config,
                   initial_capital>>

NextTwice == GenerateSignals \/ ExecBar \/ Finish \/ RunAgain

SpecTwice == InitSig /\ [][NextTwice]_vars

\* ------------------------------- position_sizing, then technical_summary
\* run_signal_backtest entered at the dispatch with strategy position_sizing
\* over a merged frame with the summary level.
InitSizing ==
    /\ pc = "signals"
    /\ strategy = "position_sizing"
    /\ merged \in FramesOver(LevelCols, MaxSigRows) \cup LongFrames
    /\ candles = <<>>
    /\ summary = <<>>
    /\ error = Null
    /\ config \in BacktestConfig
    /\ initial_capital = 10000
    /\ df = <<>>
    /\ CoreStart
    /\ result = Null
    /\ results = <<>>

\* The caller runs the next strategy, technical_summary, on the same engine
\* over the same series, config and capital, keeping the first result.
RunSummaryNext ==
    /\ pc = "done"
    /\ results = <<>>
    /\ strategy = "position_sizing"
    /\ strategy' = "technical_summary"
    /\ results' = Append(results, result)
    /\ result' = Null
    /\ df' = <<>>
    /\ pc' = "signals"
    /\ FreshLocals
    /\ UNCHANGED <<candles, summary, merged, error, config, initial_capital>>

NextSizing == GenerateSignals \/ ExecBar \/ Finish \/ RunSummaryNext

SpecSizing == InitSizing /\ [][NextSizing]_vars

\* --------------------------------------- buy_hold_first through the core
\* The merged frames of 1..rows rows whose closes are 100 or 80 and whose
\* levels are BUY, STRONG_BUY, STRONG_SELL or missing.
FallingFrames(rows) ==
    UNION { { [k \in 1..n |-> ([ts |-> k] @@ CleanCandle(r[k][1]))
                                 @@ [level |-> r[k][2]]] :
                r \in [1..n -> {100, 80} \X {"BUY", "STRONG_BUY",
                                             "STRONG_SELL", Null}] } :
            n \in 1..rows }

\* run_signal_backtest entered at the dispatch with strategy buy_hold_first:
\* a short frame with any capital of the grid, or a long falling frame.
InitHoldFirst ==
    /\ pc = "signals"
    /\ strategy = "buy_hold_first"
    /\ \/ /\ merged \in FallingFrames(MaxSigRows)
          /\ initial_capital \in InitialCapitals
       \/ /\ merged \in { f \in LongFrames \cup LongestFrames :
                             f[Len(f)].close < f[1].close }
          /\ initial_capital = 10000
    /\ candles = <<>>
    /\ summary = <<>>
    /\ error = Null
    /\ config = DefaultConfig
    /\ df = <<>>
    /\ CoreStart
    /\ result = Null
    /\ results = <<>>

NextHoldFirst == GenerateSignals \/ ExecBar \/ Finish

SpecHoldFirst == InitHoldFirst /\ [][NextHoldFirst]_vars

\* ------------------------------------------- statistics of a finished loop
\* Longest ledger, equity curve and series given to the statistics under
\* SpecStats.
MaxStat == 3
\* The trades of a ledger: any order of BUY and SELL, prices 10 and 20,
\* quantities 1 and 2, costs 0 and 1 (in units of 1 / RateDen).
StatTrades ==
    [action : {"BUY", "SELL"}, price : {10, 20}, quantity : {1, 2},
     transaction_cost : {0, RateDen}]
Ledgers ==
    { [k \in 1..Len(l) |->
          Trade(k, l[k].action, l[k].price, l[k].quantity, l[k].action,
                l[k].transaction_cost)] : l \in SeqUpTo(StatTrades, MaxStat) }
\* Equity curves: values 100, 110 and 121.
Curves == SeqUpTo({100, 110, 121}, MaxStat)
\* Series for the buy-and-hold return: closes 100 and 150, all HOLD.
HoldSeries ==
    { WithIndex([k \in 1..Len(c) |-> [close |-> c[k], signal |-> "HOLD"]]) :
        c \in SeqUpTo({100, 150}, MaxStat) }
\* transaction_cost_rate 0, 0.001, 0.0015 and 2.0 with the other defaults.
RateConfigs ==
    { [DefaultConfig EXCEPT !.transaction_cost_rate = r] : r \in {0, 2, 3, 4000} }
\* The locals of _execute_backtest at the end of its loop, as given to the
\* statistics: a ledger, or an equity curve, or a series with a capital and
\* a cost rate.
StatInputs ==
    { [trades |-> l, curve |-> <<>>, df |-> <<>>, ic |-> 10000,
       config |-> DefaultConfig] : l \in Ledgers }
    \cup { [trades |-> <<>>, curve |-> pv, df |-> <<>>, ic |-> 10000,
            config |-> DefaultConfig] : pv \in Curves }
    \cup { [trades |-> <<>>, curve |-> <<>>, df |-> d, ic |-> ic, config |-> c] :
            d \in HoldSeries, ic \in {90, 1000}, c \in RateConfigs }

\* _execute_backtest after its loop, flat, with those locals.
InitStats ==
    /\ pc = "exec"
    /\ candles = <<>> /\ summary = <<>> /\ strategy = Null /\ merged = <<>>
    /\ error = Null
    /\ \E in \in StatInputs :
          /\ trades = in.trades
          /\ portfolio_values = in.curve
          /\ df = in.df
          /\ initial_capital = in.ic
          /\ config = in.config
    /\ i = Len(df)
    /\ capital = initial_capital * RateDen
    /\ position = 0
    /\ entry_price = 0
    /\ total_transaction_cost = 0
    /\ result = Null
    /\ results = <<>>

NextStats == Finish

SpecStats == InitStats /\ [][NextStats]_vars

\* ======================================================================
\* Properties.  The helpers below are stated on the ledger and the inputs,
\* independently of the operators that model the code.
\* ======================================================================
NumTrades(ts, a) == Cardinality({k \in 1..Len(ts) : ts[k].action = a})

\* Shares held according to a ledger: bought minus sold.
RECURSIVE HeldShares(_)
HeldShares(ts) ==
    IF ts = <<>> THEN 0
    ELSE HeldShares(SubSeq(ts, 1, Len(ts) - 1))
         + (IF ts[Len(ts)].action = "BUY" THEN ts[Len(ts)].quantity
            ELSE 0 - ts[Len(ts)].quantity)

\* BUY, SELL, BUY, SELL, ... starting with a BUY.
Alternates(ts) ==
    \A k \in 1..Len(ts) : ts[k].action = (IF k % 2 = 1 THEN "BUY" ELSE "SELL")

\* Every BUY is directly followed by a SELL of the same quantity.
EveryBuyMatched(ts) ==
    \A k \in 1..Len(ts) :
        ts[k].action = "BUY" =>
            /\ k < Len(ts)
            /\ ts[k + 1].action = "SELL"
            /\ ts[k + 1].quantity = ts[k].quantity

\* A bar is about to be processed.
AtBar == pc = "exec" /\ i < Len(df)
\* The close and the strategy signal of that bar.
BarClose == df[i + 1].close
BarSignal == df[i + 1].signal
\* The bar's close is at or below the stop level of the open position, whose
\* entry price is the price of the ledger's last trade (a BUY).
AtOrBelowStop ==
    /\ position > 0
    /\ trades # <<>>
    /\ BarClose * StopDen
         <= trades[Len(trades)].price * (StopDen - config.stop_loss_ratio)

\* C1: a completed run of _execute_backtest ends FLAT: the ledger of the
\* result holds no share (the shares the loop still held were sold by the
\* last trade, the FINAL_SELL), it has as many SELL as BUY trades, every
\* BUY is directly followed by a SELL of its quantity, and total_trades is
\* min(#BUY, #SELL).
C1_RunEndsFlat ==
    pc = "done" =>
        /\ HeldShares(result.trades) = 0
        /\ \/ position = 0
           \/ /\ result.trades # <<>>
              /\ result.trades[Len(result.trades)].reason = "FINAL_SELL"
              /\ result.trades[Len(result.trades)].quantity = position
        /\ NumTrades(result.trades, "SELL") = NumTrades(result.trades, "BUY")
        /\ EveryBuyMatched(result.trades)
        /\ \/ result.total_trades = NumTrades(result.trades, "BUY")
              /\ NumTrades(result.trades, "BUY") <= NumTrades(result.trades, "SELL")
           \/ result.total_trades = NumTrades(result.trades, "SELL")
              /\ NumTrades(result.trades, "SELL") <= NumTrades(result.trades, "BUY")
        /\ result.trades = trades

\* C1 witness: a finished run with two round trips, the second one closed
\* by the forced liquidation.
C1_Witness ==
    /\ pc = "done"
    /\ Len(result.trades) = 4
    /\ result.trades[4].reason = "FINAL_SELL"
    /\ result.total_trades = 2

\* C2 as claimed: cash is never negative, for every config with
\* transaction_cost_rate >= 0 and max_position_ratio in (0, 1].
C2_CashNeverNegative == capital >= 0

\* The BUY of the bar at hand would cost more than the cash at hand.
BuyExceedsCash ==
    LET q == (capital * config.max_position_ratio) \div (RateDen * RatioDen * BarClose)
    IN  q * BarClose * (RateDen + config.transaction_cost_rate) > capital

\* C2 amended: with 0 <= transaction_cost_rate <= 1 cash is never negative,
\* after each bar and after the final liquidation; and (for every rate) a
\* BUY whose total cost exceeds cash is skipped.
C2_CashNeverNegativeUpToFullCost ==
    /\ [](config.transaction_cost_rate <= RateDen => capital >= 0)
    /\ [][(AtBar /\ position = 0 /\ BarSignal = "BUY" /\ BuyExceedsCash)
            => UNCHANGED <<capital, position, trades>>]_vars

\* C2 witness: the first bar asked for a BUY of at least one share whose
\* total cost exceeded cash, and nothing was bought.
C2_Witness ==
    /\ pc = "exec" /\ i = 1 /\ df[1].signal = "BUY"
    /\ config.transaction_cost_rate <= RateDen
    /\ trades = <<>> /\ position = 0
    /\ capital = initial_capital * RateDen
    /\ (capital * config.max_position_ratio) \div (RateDen * RatioDen * df[1].close) > 0

\* C3: FLAT and LONG are the only position states: while the loop runs the
\* position is 0 exactly when the ledger is empty or ends with a SELL, and
\* is otherwise the quantity of the ledger's last trade, a BUY; a BUY is
\* appended only when FLAT and a SELL only when LONG; the ledger alternates
\* BUY, SELL, BUY, SELL, ... starting with a BUY.
C3_FlatOrLong ==
    /\ [](/\ Alternates(trades)
          /\ pc = "exec" =>
                IF trades = <<>> \/ trades[Len(trades)].action = "SELL"
                THEN position = 0
                ELSE position = trades[Len(trades)].quantity /\ position >= 1)
    /\ [][Len(trades') > Len(trades) =>
            /\ Len(trades') = Len(trades) + 1
            /\ SubSeq(trades', 1, Len(trades)) = trades
            /\ trades'[Len(trades')].action = "BUY" => position = 0
            /\ trades'[Len(trades')].action = "SELL" => position > 0]_vars

\* C3 witness: the loop has bought, sold and bought again.
C3_Witness ==
    /\ pc = "exec" /\ Len(trades) = 3 /\ position > 0
    /\ position = trades[3].quantity

\* The configuration and the series of the stop-loss scenario.
ScenarioConfig ==
    /\ config.transaction_cost_rate = 0
    /\ config.max_position_ratio = RatioDen
    /\ config.stop_loss_ratio * 20 = StopDen
ScenarioSeries ==
    /\ Len(df) = 3
    /\ df[1].close = 100 /\ df[2].close = 95 /\ df[3].close = 80
    /\ df[1].signal = "BUY" /\ df[2].signal = "HOLD" /\ df[3].signal = "HOLD"

\* C4: a LONG position entered at price P is sold whole, with reason
\* STOP_LOSS, on a bar whose close is <= P * (1 - stop_loss_ratio), whatever
\* the bar's signal; and closes [100, 95, 80] with signals [BUY, HOLD, HOLD],
\* stop_loss_ratio 0.05, capital 10000, cost rate 0 and max_position_ratio 1
\* give the ledger [BUY@100 qty 100, SELL@95 qty 100 STOP_LOSS] and the final
\* capital 9500.
C4_StopLossFires ==
    /\ [][(AtBar /\ AtOrBelowStop) =>
            /\ Len(trades') = Len(trades) + 1
            /\ trades'[Len(trades')].action = "SELL"
            /\ trades'[Len(trades')].reason = "STOP_LOSS"
            /\ trades'[Len(trades')].quantity = position
            /\ trades'[Len(trades')].price = BarClose
            /\ trades'[Len(trades')].timestamp = df[i + 1].ts
            /\ position' = 0]_vars
    /\ []((pc = "done" /\ ScenarioConfig /\ ScenarioSeries /\ initial_capital = 10000) =>
            /\ result.trades = << Trade(1, "BUY", 100, 100, "BUY", 0),
                                  Trade(2, "SELL", 95, 100, "STOP_LOSS", 0) >>
            /\ result.final_capital = 9500 * RateDen)

\* C4 witness: the scenario has run to its end, the stop-loss having fired
\* on the bar whose close equals the stop level.
C4_Witness ==
    /\ pc = "done" /\ ScenarioConfig /\ ScenarioSeries /\ initial_capital = 10000
    /\ Len(trades) = 2
    /\ trades[2].reason = "STOP_LOSS"
    /\ trades[2].price * StopDen = trades[1].price * (StopDen - config.stop_loss_ratio)

\* floor(cash * max_position_ratio / close) of the bar at hand.
FloorQuantity ==
    (capital * config.max_position_ratio) \div (RateDen * RatioDen * BarClose)

\* C5: from FLAT, a BUY bar with quantity = floor(cash * max_position_ratio /
\* close) >= 1 and an affordable total takes quantity * close * (1 + rate)
\* from cash, opens the position at entry_price = close and appends one BUY
\* trade of that quantity, price and cost; otherwise cash, position,
\* entry_price and the ledger are unchanged.
C5_BuyFromFlat ==
    [][(AtBar /\ position = 0 /\ BarSignal = "BUY") =>
        IF /\ FloorQuantity >= 1
           /\ FloorQuantity * BarClose * (RateDen + config.transaction_cost_rate)
                <= capital
        THEN /\ capital' = capital - FloorQuantity * BarClose
                                      * (RateDen + config.transaction_cost_rate)
             /\ position' = FloorQuantity
             /\ entry_price' = BarClose
             /\ trades' = Append(trades,
                    [timestamp |-> df[i + 1].ts, action |-> "BUY",
                     price |-> BarClose, quantity |-> FloorQuantity,
                     reason |-> "BUY",
                     transaction_cost |->
                        FloorQuantity * BarClose * config.transaction_cost_rate])
        ELSE UNCHANGED <<capital, position, entry_price, trades>>]_vars

\* C5 witness: a BUY filled below full investment (max_position_ratio < 1)
\* at a price that does not divide the budget, so that the floor matters.
C5_Witness ==
    /\ pc = "exec" /\ i = 1 /\ Len(trades) = 1
    /\ trades[1].action = "BUY"
    /\ position = trades[1].quantity /\ position >= 1
    /\ entry_price = trades[1].price
    /\ config.max_position_ratio < RatioDen
    /\ (initial_capital * config.max_position_ratio) % (RatioDen * trades[1].price) # 0
    /\ capital = initial_capital * RateDen
                 - position * entry_price * (RateDen + config.transaction_cost_rate)

\* C6: from LONG, a SELL signal or a triggered stop-loss sells the whole
\* position in one trade: cash grows by position * close * (1 - rate),
\* position and entry_price become 0, and the SELL trade has the quantity
\* of the BUY trade just before it and the reason STOP_LOSS when the stop
\* level is reached, SELL otherwise.
C6_SellFromLong ==
    [][(AtBar /\ position > 0 /\ (BarSignal = "SELL" \/ AtOrBelowStop)) =>
        /\ capital' = capital + position * BarClose
                                 * (RateDen - config.transaction_cost_rate)
        /\ position' = 0
        /\ entry_price' = 0
        /\ trades # <<>>
        /\ trades[Len(trades)].action = "BUY"
        /\ trades' = Append(trades,
               [timestamp |-> df[i + 1].ts, action |-> "SELL",
                price |-> BarClose, quantity |-> trades[Len(trades)].quantity,
                reason |-> IF AtOrBelowStop THEN "STOP_LOSS" ELSE "SELL",
                transaction_cost |->
                    position * BarClose * config.transaction_cost_rate])]_vars

\* C6 witness: a position sold on a SELL signal at a cost.
C6_Witness ==
    /\ pc = "exec" /\ Len(trades) = 2
    /\ trades[2].action = "SELL" /\ trades[2].reason = "SELL"
    /\ trades[2].quantity = trades[1].quantity
    /\ trades[2].transaction_cost > 0
    /\ position = 0 /\ entry_price = 0

\* C7: a bar whose signal cannot be executed (SELL or HOLD while FLAT; BUY
\* or HOLD while LONG above the stop level) leaves cash, position,
\* entry_price, the total transaction cost and the ledger unchanged and
\* raises nothing; the equity curve gains one point.
C7_InfeasibleSignalIsHold ==
    [][(/\ AtBar
        /\ \/ position = 0 /\ BarSignal \in {"SELL", "HOLD"}
           \/ position > 0 /\ BarSignal \in {"BUY", "HOLD"} /\ ~AtOrBelowStop) =>
        /\ UNCHANGED <<capital, position, entry_price,
                       total_transaction_cost, trades>>
        /\ Len(portfolio_values') = Len(portfolio_values) + 1
        /\ error' = Null
        /\ pc' = "exec"]_vars

\* C7 witness: a BUY signal arrived on the bar after the position was opened
\* and nothing was traded, although cash for at least one more share was left.
C7_Witness ==
    /\ pc = "exec" /\ i = 2
    /\ df[1].signal = "BUY" /\ df[2].signal = "BUY"
    /\ Len(trades) = 1 /\ trades[1].timestamp = 1
    /\ position > 0
    /\ capital * config.max_position_ratio >= RateDen * RatioDen * df[2].close
    /\ Len(portfolio_values) = 2

\* C8: the end of the loop appends a FINAL_SELL exactly when a position is
\* still open: it sells the whole position at the last bar's close with the
\* last bar's timestamp and credits quantity * close * (1 - rate); with no
\* open position (also when it was closed on the last bar) nothing is
\* appended.  A FINAL_SELL is the last entry of a finished run's ledger.
C8_FinalSell ==
    /\ [][(pc = "exec" /\ i = Len(df)) =>
            IF position > 0
            THEN /\ trades' = Append(trades,
                        [timestamp |-> df[Len(df)].ts, action |-> "SELL",
                         price |-> df[Len(df)].close, quantity |-> position,
                         reason |-> "FINAL_SELL",
                         transaction_cost |-> position * df[Len(df)].close
                                              * config.transaction_cost_rate])
                 /\ capital' = capital + position * df[Len(df)].close
                                          * (RateDen - config.transaction_cost_rate)
            ELSE trades' = trades /\ capital' = capital]_vars
    /\ [](\A k \in 1..Len(trades) :
            trades[k].reason = "FINAL_SELL" => pc = "done" /\ k = Len(trades))

\* C8 witness: a position bought on an earlier bar and at another price was
\* liquidated at the end of the series.
C8_Witness ==
    /\ pc = "done" /\ Len(trades) = 2
    /\ trades[2].reason = "FINAL_SELL"
    /\ trades[2].timestamp = Len(df)
    /\ trades[1].timestamp < Len(df)
    /\ trades[2].price = df[Len(df)].close
    /\ trades[2].price # df[1].close

\* The run has got past _validate_data.
PastValidation == pc \in {"merge", "signals", "exec", "done"}
\* No signal has been generated, no bar simulated, no result returned.
NothingSimulated ==
    /\ merged = <<>> /\ df = <<>>
    /\ i = 0 /\ trades = <<>> /\ portfolio_values = <<>>
    /\ result = Null

\* C9: a run over an empty candle series raises the "no data" ValueError of
\* _validate_data and goes no further: no merge, no signal generation, no
\* simulation step, no BacktestResult.
C9_EmptySeriesRejected ==
    /\ [](candles = <<>> =>
            /\ pc \in {"validate", "error"}
            /\ pc = "error" => error = "No candle data found"
            /\ pc = "validate" => error = Null
            /\ NothingSimulated)
    /\ [][(candles = <<>> /\ pc = "validate") => pc' = "error"]_vars

\* C9 witness: the run over no candles has raised.
C9_Witness ==
    /\ candles = <<>> /\ pc = "error" /\ error = "No candle data found"

\* Cells of the four price columns of the fetched candles.
PriceCells ==
    { candles[k][PriceCols[c]] : k \in 1..Len(candles), c \in 1..4 }
SomeCellMissing == NaN \in PriceCells
SomeCellNonPositive == \E v \in PriceCells : v # NaN /\ v <= 0
InvalidPriceErrors ==
    { "Invalid price data detected in open", "Invalid price data detected in high",
      "Invalid price data detected in low", "Invalid price data detected in close" }

ResultFields ==
    { "initial_capital", "final_capital", "total_return_pct",
      "buy_hold_return_pct", "alpha", "total_trades", "winning_trades",
      "losing_trades", "win_rate", "max_drawdown", "sharpe_ratio",
      "total_transaction_cost", "trades" }

\* C11 as claimed: a run requested with a name outside the catalogue that
\* raises, raises the 'Unknown strategy' error.
C11_UnknownStrategyRaised ==
    (strategy \notin Catalogue /\ pc = "error") => error = "Unknown strategy"

\* C11 amended: a run requested with a name outside the catalogue never
\* enters _execute_backtest (no signal column, no bar, no trade, no result);
\* it raises 'Unknown strategy' at the dispatch when its candles pass
\* _validate_data, and the validation error otherwise.  Every run either
\* returns a BacktestResult with all its fields and no error, or raises one
\* error (set once, never replaced) and returns nothing.
C11_UnknownStrategyRejected ==
    /\ [](strategy \notin Catalogue =>
            /\ pc \in {"validate", "merge", "signals", "error"}
            /\ df = <<>> /\ i = 0 /\ trades = <<>> /\ portfolio_values = <<>>
            /\ result = Null
            /\ pc = "error" =>
                 IF candles # <<>> /\ ~SomeCellNonPositive
                 THEN error = "Unknown strategy"
                 ELSE error \in InvalidPriceErrors \cup {"No candle data found"})
    /\ [][(strategy \notin Catalogue /\ pc = "signals")
            => (pc' = "error" /\ error' = "Unknown strategy")]_vars
    /\ [](pc = "done" => (error = Null /\ DOMAIN result = ResultFields))
    /\ [](pc = "error" => (error # Null /\ result = Null))
    /\ [](pc \notin {"done", "error"} => (error = Null /\ result = Null))
    /\ [][error # Null => error' = error]_vars

\* C11 witness: a run over valid candles with an unknown name has raised at
\* the dispatch, after the merge.
C11_Witness ==
    /\ strategy \notin Catalogue
    /\ pc = "error" /\ error = "Unknown strategy"
    /\ Len(merged) = 2

\* The rsi14 cell of a merged row (NaN when the column is absent).
Rsi14(row) == IF "rsi14" \in DOMAIN row THEN row.rsi14 ELSE NaN
\* The signals have been generated for the rsi strategy.
RsiDone == strategy = "rsi" /\ pc \in {"exec", "done"}

\* C20: the rsi strategy gives each row BUY iff rsi14 is present and < 30,
\* SELL iff rsi14 is present and > 70, and HOLD otherwise, from that row
\* alone; rsi14 = [35, 25, 72] gives [HOLD, BUY, SELL].
C20_RsiThresholds ==
    RsiDone =>
        /\ Len(df) = Len(merged)
        /\ \A k \in 1..Len(df) :
            /\ df[k].signal = "BUY" <=> (Rsi14(merged[k]) # NaN /\ Rsi14(merged[k]) < 30)
            /\ df[k].signal = "SELL" <=> (Rsi14(merged[k]) # NaN /\ Rsi14(merged[k]) > 70)
            /\ df[k].signal = "HOLD" <=>
                  (Rsi14(merged[k]) = NaN
                   \/ (30 <= Rsi14(merged[k]) /\ Rsi14(merged[k]) <= 70))
        /\ [k \in 1..Len(merged) |-> Rsi14(merged[k])] = <<35, 25, 72>>
              => [k \in 1..Len(df) |-> df[k].signal] = <<"HOLD", "BUY", "SELL">>

\* C20 witness: the scenario rsi14 = [35, 25, 72] has been given its signals.
C20_Witness ==
    /\ RsiDone
    /\ [k \in 1..Len(merged) |-> Rsi14(merged[k])] = <<35, 25, 72>>
    /\ [k \in 1..Len(df) |-> df[k].signal] = <<"HOLD", "BUY", "SELL">>

\* A numeric cell and the level of a merged row, missing when the column is
\* absent from the frame.
Cell(row, col) == IF col \in DOMAIN row THEN row[col] ELSE NaN
LevelOf(row) == IF "level" \in DOMAIN row THEN row.level ELSE Null
\* The row lacks a value the strategy reads from the indicators or the
\* summary.
MissesInput(name, row) ==
    IF name = "rsi" THEN Cell(row, "rsi14") = NaN
    ELSE IF name = "macd"
         THEN Cell(row, "macd") = NaN \/ Cell(row, "macd_signal") = NaN
    ELSE IF name = "momentum_reversal"
         THEN \/ Cell(row, "rsi14") = NaN
              \/ Cell(row, "stoch_k") = NaN
              \/ Cell(row, "cci14") = NaN
    ELSE LevelOf(row) = Null

\* C12 as claimed: for every strategy of the catalogue, a run over a merged
\* frame with missing indicator or summary values (a null cell, or the
\* columns absent altogether) raises no error, and each row that lacks a
\* value its strategy reads gets HOLD.
C12_MissingValuesHold ==
    strategy \in Catalogue =>
        /\ pc # "error"
        /\ pc \in {"exec", "done"} =>
             \A k \in 1..Len(df) :
                 MissesInput(strategy, merged[k]) => df[k].signal = "HOLD"

\* C12, the part the code keeps: when no error is raised, each row that
\* lacks a value its strategy reads gets HOLD; and the only error is the
\* KeyError of the macd strategy over a frame without indicator columns.
C12_MissingValuesHoldUnlessKeyError ==
    strategy \in Catalogue =>
        /\ pc = "error" =>
             /\ strategy = "macd"
             /\ error = "KeyError: 'macd'"
             /\ \A k \in 1..Len(merged) : "macd" \notin DOMAIN merged[k]
        /\ pc \in {"exec", "done"} =>
             /\ Len(df) = Len(merged)
             /\ \A k \in 1..Len(df) :
                    MissesInput(strategy, merged[k]) => df[k].signal = "HOLD"

\* C12 witness: the macd strategy has raised over a frame whose rows carry
\* no indicator column.
C12_Witness ==
    /\ strategy = "macd" /\ pc = "error" /\ error = "KeyError: 'macd'"
    /\ Len(merged) = 2
    /\ "macd" \notin DOMAIN merged[1]

\* The number of rows the longest trailing window of a strategy needs
\* before every rolling statistic it computes is defined: MA200 (200 rows),
\* MA50 (50), the 20-bar volatility of the returns (21), the 14-bar mean of
\* the absolute returns (15); 1 for the strategies without such a statistic.
WarmUpRows(name) ==
    IF name \in {"trend_filtered", "market_adaptive", "buy_hold_first"} THEN 200
    ELSE IF name = "low_frequency" THEN 50
    ELSE IF name = "position_sizing" THEN 21
    ELSE IF name = "adx_filtered" THEN 15
    ELSE 1

\* C13 as claimed: in every strategy a row for which a rolling statistic
\* the strategy uses is not yet defined (fewer rows than the window exist)
\* gets HOLD, and no error is raised for it.
C13_UndefinedStatisticHolds ==
    (strategy \in LevelStrategies /\ pc \in {"exec", "done"}) =>
        \A k \in 1..Len(df) : k < WarmUpRows(strategy) => df[k].signal = "HOLD"

\* C13 witness: trend_filtered has given BUY to the only row of a frame,
\* where neither average nor the 20-bar return is defined.
C13_Witness ==
    /\ strategy = "trend_filtered" /\ pc \in {"exec", "done"}
    /\ Len(merged) = 1 /\ merged[1].level = "BUY"
    /\ df[1].signal = "BUY"

\* C13, the part the code keeps: over rows without a defined statistic no
\* generator raises; adx_filtered gives HOLD; the others apply the summary
\* level with every test on the undefined statistic false.
C13_UndefinedStatisticIsUnfiltered ==
    (strategy \in LevelStrategies /\ Len(merged) < 15) =>
        /\ pc # "error"
        /\ pc \in {"exec", "done"} =>
             \A k \in 1..Len(df) :
                 /\ strategy = "adx_filtered" => df[k].signal = "HOLD"
                 /\ strategy \in {"trend_filtered", "position_sizing"} =>
                       df[k].signal = SummarySignal(merged[k])
                 /\ (strategy = "market_adaptive"
                       /\ LevelOf(merged[k]) \in {"STRONG_BUY", "STRONG_SELL"}) =>
                       df[k].signal = SummarySignal(merged[k])
                 /\ (strategy = "low_frequency" /\ k = 1
                       /\ LevelOf(merged[k]) = "STRONG_SELL") =>
                       df[k].signal = "SELL"

\* The signal column of rows 1..t of the generated series.
SignalsUpTo(t) == [k \in 1..t |-> df[k].signal]
\* The signal column the strategy gives the frame cut after row t.
SignalsOfPrefix(t) ==
    LET d == StrategySignals(strategy, SubSeq(merged, 1, t))
    IN  [k \in 1..t |-> d[k].signal]

\* C14: no lookahead.  For each strategy and every t, the signals of rows
\* 1..t of a merged frame are those the strategy gives the frame cut after
\* row t; so two frames that agree on rows 1..t get identical signals on
\* them, whatever their later rows hold.
C14_NoLookahead ==
    (strategy \in Catalogue /\ pc \in {"exec", "done"}) =>
        /\ Len(df) = Len(merged)
        /\ \A t \in 1..Len(merged) : SignalsOfPrefix(t) = SignalsUpTo(t)

\* C14 witness: low_frequency has traded on the first row and, after the
\* cooldown, again on a later row of a long frame, whose cut after the first
\* row gets the same first signal.
C14_Witness ==
    /\ strategy = "low_frequency" /\ pc \in {"exec", "done"}
    /\ Len(merged) = 51
    /\ df[1].signal = "SELL" /\ df[50].signal = "BUY"
    /\ SignalsOfPrefix(1) = <<"SELL">>

\* The number of BUY trades before trade k of a ledger.
BuysBefore(ts, k) == Cardinality({ j \in 1..(k - 1) : ts[j].action = "BUY" })
\* The number of SELL trades before trade k that found an open BUY.
RECURSIVE MatchedBefore(_, _)
MatchedBefore(ts, k) ==
    IF k = 1 THEN 0
    ELSE LET n == MatchedBefore(ts, k - 1)
         IN  IF ts[k - 1].action = "SELL" /\ BuysBefore(ts, k - 1) > n
             THEN n + 1 ELSE n
\* Trade k is a SELL with a BUY still open; the oldest such BUY.
MatchedSell(ts, k) ==
    ts[k].action = "SELL" /\ BuysBefore(ts, k) > MatchedBefore(ts, k)
OldestOpenBuy(ts, k) ==
    CHOOSE j \in 1..(k - 1) :
        ts[j].action = "BUY" /\ BuysBefore(ts, j) = MatchedBefore(ts, k)
\* sell_price * sell_qty - sell_cost > buy_price * buy_qty + buy_cost.
PairWins(ts, k) ==
    LET b == ts[OldestOpenBuy(ts, k)]
    IN  ts[k].price * ts[k].quantity * RateDen - ts[k].transaction_cost
          > b.price * b.quantity * RateDen + b.transaction_cost

\* C17: winning_trades counts the SELL trades that find a BUY still open
\* and net more than the oldest such BUY cost in all; losing_trades counts
\* the other SELL trades that find one (break-even included); a SELL with
\* no open BUY and a BUY left unmatched count as neither.
C17_WinLossFifo ==
    pc = "done" =>
        /\ result.winning_trades =
             Cardinality({ k \in 1..Len(trades) :
                             MatchedSell(trades, k) /\ PairWins(trades, k) })
        /\ result.losing_trades =
             Cardinality({ k \in 1..Len(trades) :
                             MatchedSell(trades, k) /\ ~PairWins(trades, k) })
        /\ result.trades = trades

\* C17 witness: BUY 10 x 1, BUY 20 x 2, SELL 20 x 1: the sale is matched
\* with the first BUY and wins (against the second it would lose); and no
\* loss is counted for the BUY left open.
C17_Witness ==
    /\ pc = "done" /\ Len(trades) = 3
    /\ trades[1].action = "BUY" /\ trades[1].price = 10 /\ trades[1].quantity = 1
    /\ trades[2].action = "BUY" /\ trades[2].price = 20 /\ trades[2].quantity = 2
    /\ trades[3].action = "SELL" /\ trades[3].price = 20 /\ trades[3].quantity = 1
    /\ trades[1].transaction_cost = 0 /\ trades[3].transaction_cost = 0
    /\ result.winning_trades = 1 /\ result.losing_trades = 0

\* All per-bar returns of the equity curve are equal.
ReturnsAllEqual(pv) ==
    \A j, k \in 1..(Len(pv) - 1) : pv[j + 1] * pv[k] = pv[k + 1] * pv[j]

\* C18 as claimed: the degenerate statistics are 0: the win rate of a
\* ledger without a matched pair, the max drawdown of an empty equity
\* curve, and the Sharpe ratio of a curve with fewer than 2 points or with
\* all per-bar returns equal.
C18_DegenerateStatisticsAreZero ==
    pc = "done" =>
        /\ (\A k \in 1..Len(trades) : ~MatchedSell(trades, k)) =>
              result.win_rate.num = 0
        /\ portfolio_values = <<>> => result.max_drawdown.num = 0
        /\ (Len(portfolio_values) < 2 \/ ReturnsAllEqual(portfolio_values)) =>
              result.sharpe_ratio = "0.0"

\* C18, the part the code keeps: the same, but for a curve of exactly two
\* points, whose Sharpe ratio is NaN.
C18_DegenerateStatisticsButTwoPoints ==
    pc = "done" =>
        /\ (\A k \in 1..Len(trades) : ~MatchedSell(trades, k)) =>
              result.win_rate.num = 0
        /\ portfolio_values = <<>> => result.max_drawdown.num = 0
        /\ Len(portfolio_values) < 2 => result.sharpe_ratio = "0.0"
        /\ Len(portfolio_values) = 2 => result.sharpe_ratio = "nan"
        /\ (Len(portfolio_values) > 2 /\ ReturnsAllEqual(portfolio_values)) =>
              result.sharpe_ratio = "0.0"

\* C18 witness: the curve of a two-bar run that never trades, [100, 100],
\* has got the Sharpe ratio NaN.
C18_Witness ==
    /\ pc = "done" /\ trades = <<>>
    /\ portfolio_values = <<100, 100>>
    /\ result.sharpe_ratio = "nan"

\* floor((initial_capital - initial_capital * rate) / first_close).
HoldShares ==
    (initial_capital * (RateDen - config.transaction_cost_rate))
        \div (df[1].close * RateDen)
\* The series of the buy-and-hold example: first close 100, last close 150.
HoldExample ==
    /\ initial_capital = 1000 /\ config.transaction_cost_rate * 1000 = RateDen * 1
    /\ df # <<>> /\ df[1].close = 100 /\ df[Len(df)].close = 150

\* C19: buy_hold_return_pct is 0 for an empty series and when
\* shares = floor((initial_capital - initial_capital * rate) / first_close)
\* is not positive, and else
\* (shares * last_close * (1 - rate) - initial_capital) / initial_capital * 100;
\* with initial_capital 1000, closes 100 .. 150 and rate 0.001 that is 9
\* shares and 34.865 %.
C19_BuyHoldReturn ==
    pc = "done" =>
        /\ df = <<>> => result.buy_hold_return_pct = 0
        /\ (df # <<>> /\ HoldShares <= 0) => result.buy_hold_return_pct = 0
        /\ (df # <<>> /\ HoldShares > 0) =>
              result.buy_hold_return_pct =
                  HoldShares * df[Len(df)].close
                      * (RateDen - config.transaction_cost_rate)
                  - initial_capital * RateDen
        /\ HoldExample =>
              /\ HoldShares = 9
              /\ result.buy_hold_return_pct * 1000 = 34865 * PctDen(initial_capital)

\* C19 witness: the example has been evaluated: 9 shares, 34.865 %.
C19_Witness ==
    /\ pc = "done" /\ HoldExample /\ Len(df) = 2
    /\ HoldShares = 9
    /\ result.buy_hold_return_pct * 1000 = 34865 * PctDen(1000)

\* The two ledgers hold the same trades: bar, action, price and quantity.
SameTrades(a, b) ==
    /\ Len(a) = Len(b)
    /\ \A k \in 1..Len(a) :
          /\ a[k].timestamp = b[k].timestamp
          /\ a[k].action = b[k].action
          /\ a[k].price = b[k].price
          /\ a[k].quantity = b[k].quantity

\* The second run, at the higher rate, has returned.
BothReturned == pc = "done" /\ results # <<>>

\* C16 as stated: for a fixed series, signal column, capital,
\* max_position_ratio and stop_loss_ratio with at least one round trip in each
\* run, the run at the higher transaction_cost_rate never has the greater
\* total_return_pct.
C16_CostMonotone ==
    (BothReturned /\ results[1].total_trades >= 1 /\ result.total_trades >= 1)
        => result.total_return_pct <= results[1].total_return_pct

\* C16, amended: when the two runs execute the same trades (same bars,
\* actions, prices and quantities), the run at the higher
\* transaction_cost_rate never has the greater total_return_pct.
C16_CostMonotoneSameTrades ==
    (BothReturned /\ SameTrades(result.trades, results[1].trades))
        => result.total_return_pct <= results[1].total_return_pct

\* C16 witness: two runs with the same round trip, the costlier one with the
\* strictly smaller return.
C16_Witness ==
    /\ BothReturned
    /\ result.total_trades >= 1
    /\ SameTrades(result.trades, results[1].trades)
    /\ result.total_return_pct < results[1].total_return_pct

MacdDone == pc = "exec" /\ strategy = "macd"

\* macd - macd_signal of row t of the merged frame is null: there is no such
\* row, or one of the two values is missing.
DiffNull(t) ==
    t < 1 \/ merged[t].macd = NaN \/ merged[t].macd_signal = NaN

\* macd - macd_signal of row t.
Diff(t) == merged[t].macd - merged[t].macd_signal

\* Rows t - 1 and t both carry a difference.
DiffPair(t) == ~DiffNull(t) /\ ~DiffNull(t - 1)

\* C21: macd emits BUY on row t iff the difference macd - macd_signal is
\* <= 0 on row t - 1 and > 0 on row t, SELL iff it is >= 0 on row t - 1 and
\* < 0 on row t, and HOLD otherwise (first row, null current or previous
\* difference); two consecutive rows never both carry BUY or both SELL.
C21_MacdCrossings ==
    MacdDone =>
        /\ \A t \in 1..Len(df) :
              /\ df[t].signal = "BUY"
                    <=> (DiffPair(t) /\ Diff(t - 1) <= 0 /\ Diff(t) > 0)
              /\ df[t].signal = "SELL"
                    <=> (DiffPair(t) /\ Diff(t - 1) >= 0 /\ Diff(t) < 0)
              /\ df[t].signal \in {"BUY", "SELL", "HOLD"}
        /\ \A t \in 1..(Len(df) - 1) :
              /\ ~(df[t].signal = "BUY" /\ df[t + 1].signal = "BUY")
              /\ ~(df[t].signal = "SELL" /\ df[t + 1].signal = "SELL")

\* C21 witness: a golden cross from a difference of exactly 0, then a dead
\* cross on the next row.
C21_Witness ==
    /\ MacdDone /\ Len(df) = 3
    /\ DiffPair(2) /\ Diff(1) = 0 /\ Diff(2) > 0 /\ Diff(3) < 0
    /\ df[1].signal = "HOLD" /\ df[2].signal = "BUY" /\ df[3].signal = "SELL"

\* The low_frequency generator has returned its signal column.
LowFreqDone == pc = "exec" /\ strategy = "low_frequency"

\* The sum of the w closes of the merged frame ending at row t.
CloseSum(t, w) == SumRange(Closes(merged), t - w + 1, t)

\* The 20-row average of row t is above the 50-row average, both defined.
Ma20AboveMa50(t) ==
    t >= 50 /\ CloseSum(t, 20) * 50 > CloseSum(t, 50) * 20

\* The trend direction of row t differs from that of the row before it.
TrendFlipped(t) == t > 1 /\ Ma20AboveMa50(t) # Ma20AboveMa50(t - 1)

\* C22: under low_frequency a non-HOLD signal appears only on a row of level
\* STRONG_BUY or STRONG_SELL on which the MA20-vs-MA50 trend direction
\* flipped relative to the previous row, BUY only on a flip to up and SELL
\* only on a flip to down, and two non-HOLD rows are at least 15 bars apart.
C22_LowFrequencyOnlyAtFlips ==
    LowFreqDone =>
        /\ \A t \in 1..Len(df) :
              df[t].signal # "HOLD" =>
                  /\ LevelOf(merged[t]) \in {"STRONG_BUY", "STRONG_SELL"}
                  /\ TrendFlipped(t)
                  /\ df[t].signal = "BUY" => Ma20AboveMa50(t)
                  /\ df[t].signal = "SELL" => ~Ma20AboveMa50(t)
        /\ \A t1, t2 \in 1..Len(df) :
              (t1 < t2 /\ df[t1].signal # "HOLD" /\ df[t2].signal # "HOLD")
                  => t2 - t1 >= 15

\* C22 case: the first row has level STRONG_SELL and carries SELL although
\* no average is defined and no earlier row exists to flip from.
C22_Witness ==
    /\ LowFreqDone
    /\ LevelOf(merged[1]) = "STRONG_SELL"
    /\ ~TrendFlipped(1)
    /\ df[1].signal = "SELL"

\* Apart from the first row, the low_frequency signals are as C22 describes.
C22_LowFrequencyOnlyAtFlipsAfterFirstRow ==
    LowFreqDone =>
        /\ \A t \in 2..Len(df) :
              df[t].signal # "HOLD" =>
                  /\ LevelOf(merged[t]) \in {"STRONG_BUY", "STRONG_SELL"}
                  /\ TrendFlipped(t)
                  /\ df[t].signal = "BUY" => Ma20AboveMa50(t)
                  /\ df[t].signal = "SELL" => ~Ma20AboveMa50(t)
        /\ df[1].signal \in {"HOLD", "SELL"}
        /\ \A t1, t2 \in 1..Len(df) :
              (t1 < t2 /\ df[t1].signal # "HOLD" /\ df[t2].signal # "HOLD")
                  => t2 - t1 >= 15

\* The buy_hold_first generator has returned its signal column.
BuyHoldFirstDone == pc = "exec" /\ strategy = "buy_hold_first"

\* The rows before t that carry a signal other than HOLD.
EmittedBefore(t) == { u \in 1..(t - 1) : df[u].signal # "HOLD" }

\* The latest of them.
LastEmitted(t) == CHOOSE u \in EmittedBefore(t) : \A v \in EmittedBefore(t) : v <= u

\* A BUY has been emitted before row t and no SELL since.
BoughtBefore(t) == EmittedBefore(t) # {} /\ df[LastEmitted(t)].signal = "BUY"

\* The close of row t is below 0.9 times the average of the 200 closes
\* ending there.
BelowNineTenthsOfMa200(t) ==
    t >= 200 /\ merged[t].close * 10 * 200 < CloseSum(t, 200) * 9

\* C23: under buy_hold_first BUY is emitted exactly on the rows of level BUY
\* or STRONG_BUY that no unsold BUY precedes; SELL only after a BUY, on a row
\* of level STRONG_SELL whose close is below 0.9 times the 200-bar average;
\* every other row is HOLD, so BUY and SELL alternate, BUY first.
C23_BuyHoldFirstAlternates ==
    BuyHoldFirstDone =>
        \A t \in 1..Len(df) :
            /\ df[t].signal \in {"BUY", "SELL", "HOLD"}
            /\ df[t].signal = "BUY"
                  <=> (~BoughtBefore(t)
                       /\ LevelOf(merged[t]) \in {"BUY", "STRONG_BUY"})
            /\ df[t].signal = "SELL"
                  => (/\ BoughtBefore(t)
                      /\ LevelOf(merged[t]) = "STRONG_SELL"
                      /\ BelowNineTenthsOfMa200(t))

\* C23 witness: bought on the first row, held for 198 rows, sold on the row
\* where the close has fallen below 0.9 times the filled 200-bar average,
\* and bought again on the next row, of level BUY.
C23_Witness ==
    /\ BuyHoldFirstDone /\ Len(df) = 201
    /\ df[1].signal = "BUY"
    /\ \A t \in 2..199 : df[t].signal = "HOLD"
    /\ df[200].signal = "SELL"
    /\ df[201].signal = "BUY"

\* The trend_filtered generator has returned its signal column.
TrendFilteredDone == pc = "exec" /\ strategy = "trend_filtered"

\* close > MA50 > MA200 on row t, both averages defined.
AlignedUp(t) ==
    /\ t >= 200
    /\ merged[t].close * 50 > CloseSum(t, 50)
    /\ CloseSum(t, 50) * 200 > CloseSum(t, 200) * 50

\* The 20-bar return of row t is defined and above 10 %.
ReturnAboveTenPct(t) ==
    /\ t > 20
    /\ (merged[t].close - merged[t - 20].close) * 10 > merged[t - 20].close

SignalOfLevel(level) ==
    IF level \in {"STRONG_BUY", "BUY"} THEN "BUY"
    ELSE IF level \in {"STRONG_SELL", "SELL"} THEN "SELL"
    ELSE "HOLD"

SizesVary ==
    /\ pc = "exec" /\ strategy = "position_sizing"
    /\ \E t \in 1..Len(df) : df[t].position_size.share = 6
    /\ \E t \in 1..Len(df) : df[t].position_size.base_position # "1.0"

\* The trades of the ledger made in the loop up to bar t: those stamped with
\* the index of a bar up to t, the forced final sale left out.
LoopTradesUpTo(t) ==
    { k \in 1..Len(trades) :
         trades[k].timestamp <= df[t].ts /\ trades[k].reason # "FINAL_SELL" }

\* What trade k moves into the cash (negative for a BUY), in units of
\* 1 / RateDen.
CashMove(k) ==
    IF trades[k].action = "BUY"
    THEN 0 - (trades[k].price * trades[k].quantity * RateDen
              + trades[k].transaction_cost)
    ELSE trades[k].price * trades[k].quantity * RateDen
         - trades[k].transaction_cost

\* What trade k moves into the position (negative for a SELL).
ShareMove(k) ==
    IF trades[k].action = "BUY" THEN trades[k].quantity
    ELSE 0 - trades[k].quantity

\* The sum of f over the set ks of ledger indices.
RECURSIVE SumOver(_, _)
SumOver(f(_), ks) ==
    IF ks = {} THEN 0
    ELSE LET k == CHOOSE x \in ks : TRUE
         IN  f(k) + SumOver(f, ks \ {k})

\* Cash and shares at the end of bar t, read off the ledger.
CashAfterBar(t) == initial_capital * RateDen + SumOver(CashMove, LoopTradesUpTo(t))
SharesAfterBar(t) == SumOver(ShareMove, LoopTradesUpTo(t))

\* The ledger ends with the forced final sale.
FinalSellOccurred ==
    trades # <<>> /\ trades[Len(trades)].reason = "FINAL_SELL"

AllTrades == 1..Len(trades)

\* The transaction cost of trade k.
CostOf(k) == trades[k].transaction_cost

\* C27: at the end of a run final_capital is initial_capital minus, for each
\* BUY, price * quantity + transaction_cost, plus, for each SELL (FINAL_SELL
\* included), price * quantity - transaction_cost; and
\* total_transaction_cost is the sum of transaction_cost over the ledger.
C27_CapitalConservation ==
    pc = "done" =>
        /\ result.trades = trades
        /\ result.final_capital =
              initial_capital * RateDen + SumOver(CashMove, AllTrades)
        /\ result.total_transaction_cost = SumOver(CostOf, AllTrades)

\* C27 witness: a run with two round trips, the second closed by FINAL_SELL,
\* at a positive cost.
C27_Witness ==
    /\ pc = "done"
    /\ Len(trades) = 4
    /\ FinalSellOccurred
    /\ result.total_transaction_cost > 0
    /\ result.final_capital # initial_capital * RateDen

\* The cash just before trade k of the ledger (after the last one for
\* k = Len(trades) + 1), in units of 1 / RateDen.
CashBeforeTrade(k) ==
    initial_capital * RateDen + SumOver(CashMove, 1..(k - 1))

\* The round trips of the ledger: trade 2j - 1 and trade 2j.
RoundTrips == 1..(Len(trades) \div 2)

\* C28: for every ledger the core produces, winning_trades + losing_trades
\* = total_trades, every BUY being matched by the SELL that follows it, and
\* a round trip counts as a win exactly when the cash after its SELL is
\* greater than the cash before its BUY.
C28_WinLossCoversLedger ==
    pc = "done" =>
        /\ result.winning_trades + result.losing_trades = result.total_trades
        /\ Len(trades) = 2 * result.total_trades
        /\ \A j \in RoundTrips :
              trades[2 * j - 1].action = "BUY" /\ trades[2 * j].action = "SELL"
        /\ result.winning_trades =
              Cardinality({ j \in RoundTrips :
                  CashBeforeTrade(2 * j + 1) > CashBeforeTrade(2 * j - 1) })

\* C28 witness: a run with a winning round trip and a second one, closed by
\* FINAL_SELL, that loses its costs.
C28_Witness ==
    /\ pc = "done"
    /\ Len(trades) = 4
    /\ FinalSellOccurred
    /\ result.total_trades = 2
    /\ result.winning_trades = 1
    /\ result.losing_trades = 1
    /\ CashBeforeTrade(3) > CashBeforeTrade(1)

\* The loop has finished a bar and not yet left _execute_backtest's loop
\* body for the final sale.
AtBarEnd == pc = "exec" /\ i >= 1

\* The price of the last BUY of the ledger.
LastBuyPrice ==
    LET buys == { k \in 1..Len(trades) : trades[k].action = "BUY" }
    IN  trades[CHOOSE k \in buys : \A j \in buys : j <= k].price

\* C29: with stop_loss_ratio in (0, 1], at the end of every bar a long
\* position has entry_price equal to the price of the last BUY and the bar's
\* close strictly above entry_price * (1 - stop_loss_ratio); entry_price is 0
\* exactly when the core is flat.
C29_NoPositionBelowStop ==
    AtBarEnd =>
        /\ position > 0 =>
              /\ entry_price = LastBuyPrice
              /\ df[i].close * StopDen
                    > entry_price * (StopDen - config.stop_loss_ratio)
        /\ entry_price = 0 <=> position = 0

\* C29 witness: a position bought at 100 has survived a bar closing at 95,
\* above its stop level of 80, and the bar after it.
C29_Witness ==
    /\ AtBarEnd /\ i = 3
    /\ position > 0 /\ entry_price = 100
    /\ df[2].close = 95 /\ Len(trades) = 1

\* A position bought at 100 with a stop level of 95 has been closed on the
\* bar closing at 95, and entry_price is 0 again.
StoppedAtLevel ==
    /\ AtBarEnd /\ i = 2
    /\ position = 0 /\ entry_price = 0
    /\ Len(trades) = 2 /\ trades[2].reason = "STOP_LOSS"
    /\ trades[1].price = 100 /\ trades[2].price = 95

\* The trades stamped with the index of bar t.
TradesAtBar(t) == { k \in 1..Len(trades) : trades[k].timestamp = df[t].ts }

\* On bar t the core closed the position with STOP_LOSS.
StoppedOut(t) == \E k \in TradesAtBar(t) : trades[k].reason = "STOP_LOSS"

\* On bar t the generator emitted BUY and the core did not fill it.
BuyNotFilled(t) ==
    /\ df[t].signal = "BUY"
    /\ ~\E k \in TradesAtBar(t) : trades[k].action = "BUY"

\* The generator emitted SELL on a row from s to t.
SellRowWithin(s, t) == \E r \in s..t : df[r].signal = "SELL"

\* C30: under buy_hold_first, once the core has been stopped out of the
\* position or has not filled the BUY, no BUY trade is appended on a later
\* bar unless the generator emitted SELL on a row in between, whatever the
\* levels of the later rows; without such a row the run ends flat, with no
\* later trade.
C30_FlagNotSynchronised ==
    (strategy = "buy_hold_first" /\ pc \in {"exec", "done"}) =>
        \A t \in 1..i :
            (StoppedOut(t) \/ BuyNotFilled(t)) =>
                /\ \A k \in 1..Len(trades) :
                      (trades[k].action = "BUY" /\ trades[k].timestamp > df[t].ts)
                          => \E u \in (t + 1)..i :
                                /\ df[u].ts = trades[k].timestamp
                                /\ SellRowWithin(t, u - 1)
                /\ ~SellRowWithin(t, i) =>
                      /\ position = 0
                      /\ \A k \in 1..Len(trades) :
                            trades[k].timestamp <= df[t].ts

\* C30 witness: the position bought on the first row has been stopped out,
\* a later row has level STRONG_BUY, and the run has ended flat with the two
\* trades.
C30_Witness ==
    /\ strategy = "buy_hold_first" /\ pc = "done"
    /\ Len(trades) = 2 /\ trades[2].reason = "STOP_LOSS"
    /\ \E t \in 1..Len(df) :
          /\ df[t].ts > trades[2].timestamp
          /\ LevelOf(merged[t]) \in {"BUY", "STRONG_BUY"}
          /\ df[t].signal = "HOLD"

\* The BUY was not filled for lack of cash, a later row has level BUY, and
\* the run has ended without a trade.
NeverFilled ==
    /\ strategy = "buy_hold_first" /\ pc = "done"
    /\ Len(df) = 3 /\ BuyNotFilled(1) /\ trades = <<>>
    /\ LevelOf(merged[3]) = "BUY"

\* Stopped out, then the generator's SELL row, then a new BUY filled.
BoughtAgainAfterSellRow ==
    /\ strategy = "buy_hold_first" /\ pc = "done"
    /\ Len(trades) = 4
    /\ trades[2].reason = "STOP_LOSS"
    /\ trades[3].action = "BUY"
    /\ df[200].signal = "SELL"

====
